---- MODULE Spec2Model ----
(***************************************************************************)
(* Model of the geo library (src/src/shapes/mod.rs, src/src/vectors/mod.rs, *)
(* src/src/interpolate.rs): vectors, the three box representations          *)
(* (Rect/Cube, Area, Bounds) in 2, 3 and 4 dimensions, the ball shapes and  *)
(* their conversions and predicates.                                        *)
(*                                                                          *)
(* Numbers.  The library is generic over a real type T and the properties   *)
(* are stated in exact arithmetic.  A value v of T is represented by the    *)
(* integer v * Unit (fixed point, Unit = 4), so that halving, the only      *)
(* division the box code performs, is exact on everything the operations    *)
(* below produce from whole-number inputs.  DivTwo yields the marker        *)
(* "inexact" instead of rounding, so a halving that left the grid cannot    *)
(* pass silently: any later arithmetic or comparison on it stops TLC.       *)
(***************************************************************************)
EXTENDS Integers, Sequences, FiniteSets, TLC

VARIABLES
    shape,   \* the value under test (a Rect, Cube, Area, Bounds, ... record)
    orig,    \* the value as it was constructed
    hist,    \* names of the conversions applied to the value, in order
    arg,     \* argument of the last query made on the value
    ret      \* what the last query returned

vars == <<shape, orig, hist, arg, ret>>

---------------------------------------------------------------------------
(* Bounds of the model *)

MaxCoord == 1
MaxSteps == 2

---------------------------------------------------------------------------
(* Numeric type T *)

\* T::one() + T::one()
Two == 1 + 1

\* fixed-point scale: the real number 1 is the integer Unit
Unit == Two * Two

\* v / (T::one() + T::one())
DivTwo(v) == IF v % Two = 0 THEN v \div Two ELSE "inexact"

\* Real::max, Real::min
Max(a, b) == IF a >= b THEN a ELSE b
Min(a, b) == IF a <= b THEN a ELSE b

---------------------------------------------------------------------------
(* Vector2, Vector3, Vector4 (src/src/vectors/mod.rs) *)

Vector2_new(x, y) == [x |-> x, y |-> y]
Vector3_new(x, y, z) == [x |-> x, y |-> y, z |-> z]
Vector4_new(x, y, z, w) == [x |-> x, y |-> y, z |-> z, w |-> w]

Vector2_add(l, r) == [x |-> l.x + r.x, y |-> l.y + r.y]
Vector2_sub(l, r) == [x |-> l.x - r.x, y |-> l.y - r.y]
\* Div<T> for Vector2<T>, used only with rhs = T::one() + T::one()
Vector2_div_two(l) == [x |-> DivTwo(l.x), y |-> DivTwo(l.y)]
Vector2_sqr_magnitude(v) == v.x * v.x + v.y * v.y

\* set(&mut self, ..)
Vector2_set(self, x, y) == [self EXCEPT !.x = x, !.y = y]
Vector3_set(self, x, y, z) == [self EXCEPT !.x = x, !.y = y, !.z = z]
Vector4_set_mut(self, x, y, z, w) == [self EXCEPT !.x = x, !.y = y, !.z = z]
Vector4_set(self, x, y, z, w) == [self EXCEPT !.x = x, !.y = y, !.z = z, !.w = w]

\* AddAssign / SubAssign for Vector2<T>
Vector2_add_assign(self, rhs) == [self EXCEPT !.x = self.x + rhs.x, !.y = self.y + rhs.y]
Vector2_sub_assign(self, rhs) == [self EXCEPT !.x = self.x - rhs.x, !.y = self.y - rhs.y]

\* AddAssign / SubAssign for Vector3<T> and Vector4<T>: x and y are updated,
\* z and w are left as they were
Vector3_add_assign(self, rhs) == [self EXCEPT !.x = self.x + rhs.x, !.y = self.y + rhs.y]
Vector3_sub_assign(self, rhs) == [self EXCEPT !.x = self.x - rhs.x, !.y = self.y - rhs.y]
Vector4_add_assign(self, rhs) == [self EXCEPT !.x = self.x + rhs.x, !.y = self.y + rhs.y]
Vector4_sub_assign(self, rhs) == [self EXCEPT !.x = self.x - rhs.x, !.y = self.y - rhs.y]

\* l * r and l / r of T at the fixed-point scale
Times(l, r) == IF (l * r) % Unit = 0 THEN (l * r) \div Unit ELSE "inexact"
Over(l, r) == IF (l * Unit) % r = 0 THEN (l * Unit) \div r ELSE "inexact"

\* Mul<VectorN<T>>, Mul<T>, Div<VectorN<T>>, Div<T> for Vector2, Vector3 and
\* Vector4: every component of the result is computed
Vector_mul(l, r) == [k \in DOMAIN l |-> Times(l[k], r[k])]
Vector_mul_scalar(l, r) == [k \in DOMAIN l |-> Times(l[k], r)]
Vector_div(l, r) == [k \in DOMAIN l |-> Over(l[k], r[k])]
Vector_div_scalar(l, r) == [k \in DOMAIN l |-> Over(l[k], r)]

\* MulAssign / DivAssign for Vector2, Vector3 and Vector4, with a vector or a
\* scalar on the right: every implementation assigns self.x and self.y only
Vector_mul_assign(self, rhs) == [self EXCEPT !.x = Times(self.x, rhs.x), !.y = Times(self.y, rhs.y)]
Vector_mul_assign_scalar(self, rhs) == [self EXCEPT !.x = Times(self.x, rhs), !.y = Times(self.y, rhs)]
Vector_div_assign(self, rhs) == [self EXCEPT !.x = Over(self.x, rhs.x), !.y = Over(self.y, rhs.y)]
Vector_div_assign_scalar(self, rhs) == [self EXCEPT !.x = Over(self.x, rhs), !.y = Over(self.y, rhs)]

\* Div<T>, used only with rhs = T::one() + T::one()
Vector3_div_two(l) == [x |-> DivTwo(l.x), y |-> DivTwo(l.y), z |-> DivTwo(l.z)]
Vector4_div_two(l) == [x |-> DivTwo(l.x), y |-> DivTwo(l.y), z |-> DivTwo(l.z), w |-> DivTwo(l.w)]

Vector3_add(l, r) == [x |-> l.x + r.x, y |-> l.y + r.y, z |-> l.z + r.z]
Vector3_sub(l, r) == [x |-> l.x - r.x, y |-> l.y - r.y, z |-> l.z - r.z]
\* Mul<T> for Vector3<T>, used only with rhs = T::one() + T::one()
Vector3_mul_two(l) == [x |-> l.x * Two, y |-> l.y * Two, z |-> l.z * Two]
Vector3_sqr_magnitude(v) == v.x * v.x + v.y * v.y + v.z * v.z

Vector4_sub(l, r) ==
    [x |-> l.x - r.x, y |-> l.y - r.y, z |-> l.z - r.z, w |-> l.w - r.w]
Vector4_sqr_magnitude(v) == v.x * v.x + v.y * v.y + v.z * v.z + v.w * v.w

---------------------------------------------------------------------------
(* Circle *)

Circle_new(center_x, center_y, radius) ==
    [kind |-> "Circle", center |-> Vector2_new(center_x, center_y),
     radius |-> radius]

Circle_contains(self, point) ==
    LET delta == Vector2_sub(point, self.center)
        distance_squared == Vector2_sqr_magnitude(delta)
    IN  distance_squared <= self.radius * self.radius

Circle_overlaps_mut(self, other) ==
    LET delta == Vector2_sub(other.center, self.center)
        distance_squared == Vector2_sqr_magnitude(delta)
        radius_sum == self.radius + other.radius
    IN  distance_squared < radius_sum * self.radius

Circle_overlaps(self, other) ==
    LET delta == Vector2_sub(other.center, self.center)
        distance_squared == Vector2_sqr_magnitude(delta)
        radius_sum == self.radius + other.radius
    IN  distance_squared < radius_sum * radius_sum

---------------------------------------------------------------------------
(* Rect *)

Rect_new(x, y, width, height) ==
    [kind |-> "Rect", x |-> x, y |-> y, width |-> width, height |-> height]

Rect_new_vectors(position, size) ==
    Rect_new(position.x, position.y, size.x, size.y)

Rect_get_center(self) ==
    Vector2_new(self.x + DivTwo(self.width), self.y + DivTwo(self.height))

Rect_get_x_min(self) == self.x
Rect_get_x_max(self) == self.x + self.width
Rect_get_y_min(self) == self.y
Rect_get_y_max(self) == self.y + self.height

Rect_contains(self, point) ==
    /\ point.x >= self.x
    /\ point.x <= self.x + self.width
    /\ point.y >= self.y
    /\ point.y <= self.y + self.height

Rect_overlaps_mut(self, other) ==
    /\ self.x < other.x + other.width
    /\ self.x + self.width > other.x
    /\ self.y < other.y + other.height
    /\ self.y + self.height >= other.y

Rect_overlaps(self, other) ==
    /\ self.x < other.x + other.width
    /\ self.x + self.width > other.x
    /\ self.y < other.y + other.height
    /\ self.y + self.height > other.y

Rect_overlaps_circle_mut(self, circle) ==
    LET xn == Max(self.x, Min(circle.center.x, Rect_get_x_max(self)))
        yn == Max(self.y, Min(circle.center.y, Rect_get_y_max(self)))
        dx == xn - circle.center.x
        dy == yn - circle.center.y
    IN  (dx * dx + dy * dy) < circle.radius * circle.radius

Rect_overlaps_circle(self, circle) ==
    LET xn == Max(self.x, Min(circle.center.x, Rect_get_x_max(self)))
        yn == Max(self.y, Min(circle.center.y, Rect_get_y_max(self)))
        dx == xn - circle.center.x
        dy == yn - circle.center.y
    IN  (dx * dx + dy * dy) <= circle.radius * circle.radius

---------------------------------------------------------------------------
(* Area2D *)

Area2D_new_vectors(lower_left, upper_right) ==
    [kind |-> "Area2D", lower_left |-> lower_left, upper_right |-> upper_right]

Area2D_new(lower_left_x, lower_left_y, upper_right_x, upper_right_y) ==
    Area2D_new_vectors(Vector2_new(lower_left_x, lower_left_y),
                       Vector2_new(upper_right_x, upper_right_y))

Area2D_get_x_min(self) == self.lower_left.x
Area2D_get_x_max(self) == self.upper_right.x
Area2D_get_y_min(self) == self.lower_left.y
Area2D_get_y_max(self) == self.upper_right.y

Area2D_get_width(self) == self.upper_right.x - self.lower_left.x
Area2D_get_height(self) == self.upper_right.y - self.lower_left.y

Area2D_get_size(self) ==
    Vector2_new(Area2D_get_width(self), Area2D_get_height(self))

Area2D_get_center(self) ==
    LET half_size == Vector2_div_two(Area2D_get_size(self))
    IN  Vector2_add(self.lower_left, half_size)

Area2D_contains(self, point) ==
    /\ point.x >= self.lower_left.x
    /\ point.x <= self.upper_right.x
    /\ point.y >= self.lower_left.y
    /\ point.y <= self.upper_right.y

Area2D_overlaps(self, other) ==
    /\ self.lower_left.x < other.upper_right.x
    /\ self.upper_right.x > other.lower_left.x
    /\ self.lower_left.y < other.upper_right.y
    /\ self.upper_right.y > other.lower_left.y

Area2D_overlaps_rect(self, other) ==
    /\ self.lower_left.x < other.x + other.width
    /\ self.upper_right.x > other.x
    /\ self.lower_left.y < other.y + other.height
    /\ self.upper_right.y > other.y

Area2D_overlaps_bounds(self, bounds) ==
    /\ self.lower_left.x < bounds.center.x + bounds.extents.x
    /\ self.upper_right.x > bounds.center.x - bounds.extents.x
    /\ self.lower_left.y < bounds.center.y + bounds.extents.y
    /\ self.upper_right.y > bounds.center.y - bounds.extents.y

---------------------------------------------------------------------------
(* Bounds2D *)

Bounds2D_new_vectors(center, extents) ==
    [kind |-> "Bounds2D", center |-> center, extents |-> extents]

Bounds2D_new(center_x, center_y, extents_x, extents_y) ==
    Bounds2D_new_vectors(Vector2_new(center_x, center_y),
                         Vector2_new(extents_x, extents_y))

Bounds2D_get_size(self) ==
    Vector2_new(self.extents.x + self.extents.x,
                self.extents.y + self.extents.y)

Bounds2D_contains_mut(self, point) ==
    /\ self.center.x - self.extents.x <= point.x
    /\ self.center.x + self.extents.x >= point.x
    /\ self.center.y - self.extents.y <= point.y
    /\ self.center.y + self.extents.y >= point.y

Bounds2D_contains(self, point) ==
    /\ self.center.x - self.extents.x < point.x
    /\ self.center.x + self.extents.x > point.x
    /\ self.center.y - self.extents.y < point.y
    /\ self.center.y + self.extents.y > point.y

Bounds2D_overlaps(self, other) ==
    /\ self.center.x - self.extents.x < other.center.x + other.extents.x
    /\ self.center.x + self.extents.x > other.center.x - other.extents.x
    /\ self.center.y - self.extents.y < other.center.y + other.extents.y
    /\ self.center.y + self.extents.y > other.center.y - other.extents.y

Bounds2D_overlaps_rect(self, rect) ==
    /\ self.center.x - self.extents.x < Rect_get_x_max(rect)
    /\ self.center.x + self.extents.x > Rect_get_x_min(rect)
    /\ self.center.y - self.extents.y < Rect_get_y_max(rect)
    /\ self.center.y + self.extents.y > Rect_get_y_min(rect)

Bounds2D_overlaps_area(self, area) ==
    /\ self.center.x - self.extents.x < Area2D_get_x_max(area)
    /\ self.center.x + self.extents.x > Area2D_get_x_min(area)
    /\ self.center.y - self.extents.y < Area2D_get_y_max(area)
    /\ self.center.y + self.extents.y > Area2D_get_y_min(area)

---------------------------------------------------------------------------
(* Conversions between the 2D box representations *)

\* impl From<Area2D<T>> for Rect<T>
Rect_from_Area2D(area) ==
    Rect_new_vectors(area.lower_left,
                     Vector2_sub(area.upper_right, area.lower_left))

\* impl From<Bounds2D<T>> for Rect<T>
Rect_from_Bounds2D_mut(bounds) ==
    LET position == Vector2_sub(bounds.center, bounds.extents)
        size == bounds.extents
    IN  Rect_new_vectors(position, size)

Rect_from_Bounds2D(bounds) ==
    LET position == Vector2_sub(bounds.center, bounds.extents)
        size == Bounds2D_get_size(bounds)
    IN  Rect_new_vectors(position, size)

\* Area2D::overlaps_circle, Bounds2D::overlaps_circle: the test of the Rect the
\* receiver converts to.  Bounds2D::overlaps_circle declares no return type
\* and ends its last statement with a semicolon: it returns ()
UnitValue == [unit |-> "()"]

Area2D_overlaps_circle(self, circle) ==
    LET rect == Rect_from_Area2D(self)
    IN  Rect_overlaps_circle(rect, circle)

Bounds2D_overlaps_circle(self, circle) ==
    LET rect == Rect_from_Bounds2D(self)
        discarded == Rect_overlaps_circle(rect, circle)
    IN  UnitValue

Rect_overlaps_area(self, area) ==
    LET other == Rect_from_Area2D(area)
    IN  Rect_overlaps(self, other)

Rect_overlaps_bounds(self, bounds) ==
    LET other == Rect_from_Bounds2D(bounds)
    IN  Rect_overlaps(self, other)

\* impl From<Rect<T>> for Area2D<T>
Area2D_from_Rect(rect) ==
    Area2D_new(rect.x, rect.y, rect.x + rect.width, rect.y + rect.height)

\* impl From<Bounds2D<T>> for Area2D<T>
Area2D_from_Bounds2D(bounds) ==
    Area2D_new(bounds.center.x - bounds.extents.x,
               bounds.center.y - bounds.extents.y,
               bounds.center.x + bounds.extents.x,
               bounds.center.y + bounds.extents.y)

\* impl From<Rect<T>> for Bounds2D<T>
Bounds2D_from_Rect(rect) ==
    Bounds2D_new(Rect_get_center(rect).x,
                 Rect_get_center(rect).y,
                 DivTwo(rect.width),
                 DivTwo(rect.height))

\* impl From<Area2D<T>> for Bounds2D<T>: both extents are taken from the width
Bounds2D_from_Area2D(area) ==
    Bounds2D_new(Area2D_get_center(area).x,
                 Area2D_get_center(area).y,
                 DivTwo(Area2D_get_width(area)),
                 DivTwo(Area2D_get_width(area)))

---------------------------------------------------------------------------
(* Line2D *)

Line2D_new_vectors(start, end) == [kind |-> "Line2D", start |-> start, end |-> end]

Line2D_new(start_x, start_y, end_x, end_y) ==
    Line2D_new_vectors(Vector2_new(start_x, start_y), Vector2_new(end_x, end_y))

\* Option<Vector2<T>>
NoPoint == [some |-> FALSE]
SomePoint(v) == [some |-> TRUE, point |-> v]

\* the quotient num / den of two values kept exact, and a value plus a
\* quotient
Quot(num, den) == [num |-> num, den |-> den]
PlusQuot_mut(v, q) == [num |-> v * q.den - q.num, den |-> q.den]
PlusQuot(v, q) == [num |-> v * q.den + q.num, den |-> q.den]

\* Line2D::intersects, first part: the intervals of the two segments on the
\* x axis or on the y axis do not meet
Line2D_intersects_rejects_mut(self, other) ==
    LET p1 == self.start
        p2 == self.end
        p3 == other.start
        p4 == other.end
        ax == p2.x - p1.x
        bx == p3.x - p4.x
        x1lo == IF ax < 0 THEN p2.x ELSE p1.x
        x1hi == IF ax < 0 THEN p1.x ELSE p2.x
        ay == p2.y - p1.y
        by == p3.y - p4.y
        y1lo == IF ay < 0 THEN p2.y ELSE p1.y
        y1hi == IF ay < 0 THEN p1.y ELSE p2.y
    IN  \/ IF bx > 0 THEN x1hi <= p4.x \/ p3.x < x1lo
                     ELSE x1hi < p3.x \/ p4.x < x1lo
        \/ IF by > 0 THEN y1hi < p4.y \/ p3.y < y1lo
                     ELSE y1hi < p3.y \/ p4.y < y1lo

Line2D_intersects_rejects(self, other) ==
    LET p1 == self.start
        p2 == self.end
        p3 == other.start
        p4 == other.end
        ax == p2.x - p1.x
        bx == p3.x - p4.x
        x1lo == IF ax < 0 THEN p2.x ELSE p1.x
        x1hi == IF ax < 0 THEN p1.x ELSE p2.x
        ay == p2.y - p1.y
        by == p3.y - p4.y
        y1lo == IF ay < 0 THEN p2.y ELSE p1.y
        y1hi == IF ay < 0 THEN p1.y ELSE p2.y
    IN  \/ IF bx > 0 THEN x1hi < p4.x \/ p3.x < x1lo
                     ELSE x1hi < p3.x \/ p4.x < x1lo
        \/ IF by > 0 THEN y1hi < p4.y \/ p3.y < y1lo
                     ELSE y1hi < p3.y \/ p4.y < y1lo

\* Line2D::intersects, second part: the alpha, beta and parallel tests and
\* the intersection point
Line2D_intersects_parametric_mut(self, other) ==
    LET p1 == self.start
        p2 == self.end
        p3 == other.start
        p4 == other.end
        ax == p2.x - p1.x
        bx == p3.x - p4.x
        ay == p2.y - p1.y
        by == p3.y - p4.y
        cx == p1.x - p3.x
        cy == p1.y - p3.y
        d == by * cx - bx * cy
        f == ay * bx - ax * by
        e == ax * cy - ay * cx
    IN  IF IF f > 0 THEN d < 0 \/ d > f ELSE d > 0 \/ d < f THEN NoPoint
        ELSE IF IF f > 0 THEN e <= 0 \/ e > f ELSE e > 0 \/ e < f THEN NoPoint
        ELSE IF f = 0 THEN NoPoint
        ELSE SomePoint(Vector2_new(PlusQuot(p1.x, Quot(d * ax, f)),
                                   PlusQuot(p1.y, Quot(d * ay, f))))

Line2D_intersects_parametric(self, other) ==
    LET p1 == self.start
        p2 == self.end
        p3 == other.start
        p4 == other.end
        ax == p2.x - p1.x
        bx == p3.x - p4.x
        ay == p2.y - p1.y
        by == p3.y - p4.y
        cx == p1.x - p3.x
        cy == p1.y - p3.y
        d == by * cx - bx * cy
        f == ay * bx - ax * by
        e == ax * cy - ay * cx
    IN  IF IF f > 0 THEN d < 0 \/ d > f ELSE d > 0 \/ d < f THEN NoPoint
        ELSE IF IF f > 0 THEN e < 0 \/ e > f ELSE e > 0 \/ e < f THEN NoPoint
        ELSE IF f = 0 THEN NoPoint
        ELSE SomePoint(Vector2_new(PlusQuot(p1.x, Quot(d * ax, f)),
                                   PlusQuot(p1.y, Quot(d * ay, f))))

Line2D_intersects(self, other) ==
    IF Line2D_intersects_rejects(self, other)
    THEN NoPoint
    ELSE Line2D_intersects_parametric(self, other)

\* values the code gets by square root, division and the arithmetic on
\* them, kept as the expression that computes them
Sqrt(v) == [fn |-> "sqrt", of |-> v]
Ratio(a, b) == [fn |-> "div", num |-> a, den |-> b]
Product(a, b) == [fn |-> "mul", l |-> a, r |-> b]
Sum(a, b) == [fn |-> "add", l |-> a, r |-> b]

\* Sub, sqr_magnitude, normalize and Add of the vectors, for a vector of any
\* of the three dimensions
Vector_sub(l, r) == [k \in DOMAIN l |-> l[k] - r[k]]
Vector_add(l, r) == [k \in DOMAIN l |-> l[k] + r[k]]
Vector_sqr_magnitude(v) ==
    LET Sq(k) == IF k \in DOMAIN v THEN v[k] * v[k] ELSE 0
    IN  Sq("x") + Sq("y") + Sq("z") + Sq("w")
Vector_magnitude(v) == Sqrt(Vector_sqr_magnitude(v))
Vector_normalize(v) ==
    LET length == Sqrt(Vector_sqr_magnitude(v))
    IN  [k \in DOMAIN v |-> Ratio(v[k], length)]

---------------------------------------------------------------------------
(* Line2D, Line3D, Line4D: the setters (&mut self), the same text in the   *)
(* three types                                                             *)

Line3D_new_vectors(start, end) == [kind |-> "Line3D", start |-> start, end |-> end]
Line3D_new(start_x, start_y, start_z, end_x, end_y, end_z) ==
    Line3D_new_vectors(Vector3_new(start_x, start_y, start_z), Vector3_new(end_x, end_y, end_z))

Line4D_new_vectors(start, end) == [kind |-> "Line4D", start |-> start, end |-> end]
Line4D_new(start_x, start_y, start_z, start_w, end_x, end_y, end_z, end_w) ==
    Line4D_new_vectors(Vector4_new(start_x, start_y, start_z, start_w), Vector4_new(end_x, end_y, end_z, end_w))

Line_set_length(self, length) ==
    LET delta == Vector_sub(self.end, self.start)
        delta_normalized == Vector_normalize(delta)
    IN  [self EXCEPT !.end = [k \in DOMAIN self.start |->
                                Sum(self.start[k], Product(delta_normalized[k], length))]]

Line_set_sqr_length(self, sqr_length) == Line_set_length(self, Sqrt(sqr_length))

Line_set_direction(self, direction) ==
    LET delta == Vector_sub(self.end, self.start)
        length == Vector_magnitude(delta)
    IN  [self EXCEPT !.end = [k \in DOMAIN self.start |->
                                Sum(self.start[k], Product(direction[k], length))]]

Line_set_delta_mut(self, delta) == [self EXCEPT !.end = Vector_add(self.end, delta)]

Line_set_delta(self, delta) == [self EXCEPT !.end = Vector_add(self.start, delta)]

Line2D_set_length(self, length) == Line_set_length(self, length)
Line2D_set_sqr_length(self, sqr_length) == Line_set_sqr_length(self, sqr_length)
Line2D_set_direction(self, direction) == Line_set_direction(self, direction)
Line2D_set_delta(self, delta) == Line_set_delta(self, delta)
Line3D_set_length(self, length) == Line_set_length(self, length)
Line3D_set_sqr_length(self, sqr_length) == Line_set_sqr_length(self, sqr_length)
Line3D_set_direction(self, direction) == Line_set_direction(self, direction)
Line3D_set_delta(self, delta) == Line_set_delta(self, delta)
Line4D_set_length(self, length) == Line_set_length(self, length)
Line4D_set_sqr_length(self, sqr_length) == Line_set_sqr_length(self, sqr_length)
Line4D_set_direction(self, direction) == Line_set_direction(self, direction)
Line4D_set_delta(self, delta) == Line_set_delta(self, delta)

---------------------------------------------------------------------------
(* Cube *)

Cube_new(x, y, z, width, height, depth) ==
    [kind |-> "Cube", x |-> x, y |-> y, z |-> z,
     width |-> width, height |-> height, depth |-> depth]

Cube_new_vectors(position, size) ==
    Cube_new(position.x, position.y, position.z, size.x, size.y, size.z)

Cube_get_center(self) ==
    Vector3_new(self.x + DivTwo(self.width),
                self.y + DivTwo(self.height),
                self.z + DivTwo(self.depth))

Cube_contains(self, point) ==
    /\ point.x >= self.x
    /\ point.x <= self.x + self.width
    /\ point.y >= self.y
    /\ point.y <= self.y + self.height
    /\ point.z >= self.z
    /\ point.z <= self.z + self.depth

Cube_overlaps(self, other) ==
    /\ self.x < other.x + other.width
    /\ self.x + self.width > other.x
    /\ self.y < other.y + other.height
    /\ self.y + self.height > other.y
    /\ self.z < other.z + other.depth
    /\ self.z + self.depth > other.z

---------------------------------------------------------------------------
(* Area3D *)

Area3D_new_vectors(lower_left, upper_right) ==
    [kind |-> "Area3D", lower_left |-> lower_left, upper_right |-> upper_right]

Area3D_new(lower_left_x, lower_left_y, lower_left_z, upper_right_x, upper_right_y, upper_right_z) ==
    Area3D_new_vectors(
        Vector3_new(lower_left_x, lower_left_y, lower_left_z),
        Vector3_new(upper_right_x, upper_right_y, upper_right_z))

Area3D_get_x_min(self) == self.lower_left.x
Area3D_get_x_max(self) == self.upper_right.x
Area3D_get_y_min(self) == self.lower_left.y
Area3D_get_y_max(self) == self.upper_right.y
Area3D_get_z_min(self) == self.lower_left.z
Area3D_get_z_max(self) == self.upper_right.z

Area3D_get_width(self) == self.upper_right.x - self.lower_left.x

Area3D_get_center(self) ==
    Vector3_new(DivTwo(self.lower_left.x + self.upper_right.x),
                DivTwo(self.lower_left.y + self.upper_right.y),
                DivTwo(self.lower_left.z + self.upper_right.z))

Area3D_contains(self, point) ==
    /\ point.x >= self.lower_left.x
    /\ point.x <= self.upper_right.x
    /\ point.y >= self.lower_left.y
    /\ point.y <= self.upper_right.y
    /\ point.z >= self.lower_left.z
    /\ point.z <= self.upper_right.z

Area3D_overlaps(self, other) ==
    /\ self.lower_left.x < other.upper_right.x
    /\ self.upper_right.x > other.lower_left.x
    /\ self.lower_left.y < other.upper_right.y
    /\ self.upper_right.y > other.lower_left.y
    /\ self.lower_left.z < other.upper_right.z
    /\ self.upper_right.z > other.lower_left.z

Area3D_overlaps_bounds(self, bounds) ==
    /\ self.lower_left.x < bounds.center.x + bounds.extents.x
    /\ self.upper_right.x > bounds.center.x - bounds.extents.x
    /\ self.lower_left.y < bounds.center.y + bounds.extents.y
    /\ self.upper_right.y > bounds.center.y - bounds.extents.y
    /\ self.lower_left.z < bounds.center.z + bounds.extents.z
    /\ self.upper_right.z > bounds.center.z - bounds.extents.z

---------------------------------------------------------------------------
(* Bounds3D *)

Bounds3D_new_vectors(center, extents) ==
    [kind |-> "Bounds3D", center |-> center, extents |-> extents]

Bounds3D_new(center_x, center_y, center_z, extents_x, extents_y, extents_z) ==
    Bounds3D_new_vectors(Vector3_new(center_x, center_y, center_z),
                         Vector3_new(extents_x, extents_y, extents_z))

Bounds3D_contains(self, point) ==
    /\ self.center.x - self.extents.x < point.x
    /\ self.center.x + self.extents.x > point.x
    /\ self.center.y - self.extents.y < point.y
    /\ self.center.y + self.extents.y > point.y
    /\ self.center.z - self.extents.z < point.z
    /\ self.center.z + self.extents.z > point.z

Bounds3D_overlaps(self, other) ==
    /\ self.center.x - self.extents.x < other.center.x + other.extents.x
    /\ self.center.x + self.extents.x > other.center.x - other.extents.x
    /\ self.center.y - self.extents.y < other.center.y + other.extents.y
    /\ self.center.y + self.extents.y > other.center.y - other.extents.y
    /\ self.center.z - self.extents.z < other.center.z + other.extents.z
    /\ self.center.z + self.extents.z > other.center.z - other.extents.z

Bounds3D_overlaps_area(self, area) ==
    /\ self.center.x - self.extents.x < Area3D_get_x_max(area)
    /\ self.center.x + self.extents.x > Area3D_get_x_min(area)
    /\ self.center.y - self.extents.y < Area3D_get_y_max(area)
    /\ self.center.y + self.extents.y > Area3D_get_y_min(area)
    /\ self.center.z - self.extents.z < Area3D_get_z_max(area)
    /\ self.center.z + self.extents.z > Area3D_get_z_min(area)

---------------------------------------------------------------------------
(* Conversions between the 3D box representations *)

\* impl From<Area3D<T>> for Cube<T>
Cube_from_Area3D(area) ==
    Cube_new(area.lower_left.x, area.lower_left.y, area.lower_left.z,
             area.upper_right.x - area.lower_left.x,
             area.upper_right.y - area.lower_left.y,
             area.upper_right.z - area.lower_left.z)

\* impl From<Bounds3D<T>> for Cube<T>
Cube_from_Bounds3D_mut(bounds) ==
    LET position == Vector3_sub(bounds.center, bounds.extents)
        size == bounds.extents
    IN  Cube_new_vectors(position, size)

Cube_from_Bounds3D(bounds) ==
    LET position == Vector3_sub(bounds.center, bounds.extents)
        size == Vector3_mul_two(bounds.extents)
    IN  Cube_new_vectors(position, size)

Cube_overlaps_area(self, area) ==
    LET other == Cube_from_Area3D(area)
    IN  Cube_overlaps(self, other)

Cube_overlaps_bounds(self, bounds) ==
    LET other == Cube_from_Bounds3D(bounds)
    IN  Cube_overlaps(self, other)

\* impl From<Bounds3D<T>> for Area3D<T>
Area3D_from_Bounds3D(bounds) ==
    Area3D_new(bounds.center.x - bounds.extents.x,
               bounds.center.y - bounds.extents.y,
               bounds.center.z - bounds.extents.z,
               bounds.center.x + bounds.extents.x,
               bounds.center.y + bounds.extents.y,
               bounds.center.z + bounds.extents.z)

\* impl From<Area3D<T>> for Bounds3D<T>: all extents are taken from the width
Bounds3D_from_Area3D(area) ==
    Bounds3D_new(Area3D_get_center(area).x,
                 Area3D_get_center(area).y,
                 Area3D_get_center(area).z,
                 DivTwo(Area3D_get_width(area)),
                 DivTwo(Area3D_get_width(area)),
                 DivTwo(Area3D_get_width(area)))

---------------------------------------------------------------------------
(* Sphere *)

Sphere_new(center_x, center_y, center_z, radius) ==
    [kind |-> "Sphere", center |-> Vector3_new(center_x, center_y, center_z),
     radius |-> radius]

Sphere_contains_mut(self, point) ==
    LET delta == Vector3_sub(point, self.center)
        distance_squared == Vector3_sqr_magnitude(delta)
    IN  distance_squared <= self.radius

Sphere_contains(self, point) ==
    LET delta == Vector3_sub(point, self.center)
        distance_squared == Vector3_sqr_magnitude(delta)
    IN  distance_squared <= self.radius * self.radius

Sphere_overlaps(self, other) ==
    LET delta == Vector3_sub(other.center, self.center)
        distance_squared == Vector3_sqr_magnitude(delta)
        radius_sum == self.radius + other.radius
    IN  distance_squared < radius_sum * radius_sum

---------------------------------------------------------------------------
(* Area4D *)

Area4D_new_vectors(lower_left, upper_right) ==
    [kind |-> "Area4D", lower_left |-> lower_left, upper_right |-> upper_right]

Area4D_new(lower_left_x, lower_left_y, lower_left_z, lower_left_w, upper_right_x, upper_right_y, upper_right_z, upper_right_w) ==
    Area4D_new_vectors(
        Vector4_new(lower_left_x, lower_left_y, lower_left_z, lower_left_w),
        Vector4_new(upper_right_x, upper_right_y, upper_right_z,
                    upper_right_w))

Area4D_get_x_min(self) == self.lower_left.x
Area4D_get_x_max(self) == self.upper_right.x
Area4D_get_y_min(self) == self.lower_left.y
Area4D_get_y_max(self) == self.upper_right.y
Area4D_get_z_min(self) == self.lower_left.z
Area4D_get_z_max(self) == self.upper_right.z
Area4D_get_w_min(self) == self.lower_left.w
Area4D_get_w_max(self) == self.upper_right.w

\* Area4D::get_width reads the w components
Area4D_get_width(self) == self.upper_right.w - self.lower_left.w

Area4D_get_center(self) ==
    Vector4_new(DivTwo(self.lower_left.x + self.upper_right.x),
                DivTwo(self.lower_left.y + self.upper_right.y),
                DivTwo(self.lower_left.z + self.upper_right.z),
                DivTwo(self.lower_left.w + self.upper_right.w))

\* Area4D::contains tests x, y and z only
Area4D_contains(self, point) ==
    /\ point.x >= self.lower_left.x
    /\ point.x <= self.upper_right.x
    /\ point.y >= self.lower_left.y
    /\ point.y <= self.upper_right.y
    /\ point.z >= self.lower_left.z
    /\ point.z <= self.upper_right.z

Area4D_overlaps(self, other) ==
    /\ self.lower_left.x < other.upper_right.x
    /\ self.upper_right.x > other.lower_left.x
    /\ self.lower_left.y < other.upper_right.y
    /\ self.upper_right.y > other.lower_left.y
    /\ self.lower_left.z < other.upper_right.z
    /\ self.upper_right.z > other.lower_left.z
    /\ self.lower_left.w < other.upper_right.w
    /\ self.upper_right.w > other.lower_left.w

---------------------------------------------------------------------------
(* Bounds4D *)

Bounds4D_new_vectors(center, extents) ==
    [kind |-> "Bounds4D", center |-> center, extents |-> extents]

Bounds4D_new(center_x, center_y, center_z, center_w, extents_x, extents_y, extents_z, extents_w) ==
    Bounds4D_new_vectors(
        Vector4_new(center_x, center_y, center_z, center_w),
        Vector4_new(extents_x, extents_y, extents_z, extents_w))

Bounds4D_contains(self, point) ==
    /\ self.center.x - self.extents.x < point.x
    /\ self.center.x + self.extents.x > point.x
    /\ self.center.y - self.extents.y < point.y
    /\ self.center.y + self.extents.y > point.y
    /\ self.center.z - self.extents.z < point.z
    /\ self.center.z + self.extents.z > point.z
    /\ self.center.w - self.extents.w < point.w
    /\ self.center.w + self.extents.w > point.w

Bounds4D_overlaps(self, other) ==
    /\ self.center.x - self.extents.x < other.center.x + other.extents.x
    /\ self.center.x + self.extents.x > other.center.x - other.extents.x
    /\ self.center.y - self.extents.y < other.center.y + other.extents.y
    /\ self.center.y + self.extents.y > other.center.y - other.extents.y
    /\ self.center.z - self.extents.z < other.center.z + other.extents.z
    /\ self.center.z + self.extents.z > other.center.z - other.extents.z
    /\ self.center.w - self.extents.w < other.center.w + other.extents.w
    /\ self.center.w + self.extents.w > other.center.w - other.extents.w

---------------------------------------------------------------------------
(* Conversions between the 4D box representations *)

\* impl From<Bounds4D<T>> for Area4D<T>.  The eight arguments are passed in
\* the order (x-, y-, z-, x+, y+, z+, w-, w+) to a constructor that takes
\* (x-, y-, z-, w-, x+, y+, z+, w+).
Area4D_from_Bounds4D(bounds) ==
    Area4D_new(bounds.center.x - bounds.extents.x,
               bounds.center.y - bounds.extents.y,
               bounds.center.z - bounds.extents.z,
               bounds.center.x + bounds.extents.x,
               bounds.center.y + bounds.extents.y,
               bounds.center.z + bounds.extents.z,
               bounds.center.w - bounds.extents.w,
               bounds.center.w + bounds.extents.w)

\* impl From<Area4D<T>> for Bounds4D<T>: all extents are taken from get_width
Bounds4D_from_Area4D(area) ==
    Bounds4D_new(Area4D_get_center(area).x,
                 Area4D_get_center(area).y,
                 Area4D_get_center(area).z,
                 Area4D_get_center(area).w,
                 DivTwo(Area4D_get_width(area)),
                 DivTwo(Area4D_get_width(area)),
                 DivTwo(Area4D_get_width(area)),
                 DivTwo(Area4D_get_width(area)))

---------------------------------------------------------------------------
(* HyperSphere *)

HyperSphere_new(center_x, center_y, center_z, center_w, radius) ==
    [kind |-> "HyperSphere",
     center |-> Vector4_new(center_x, center_y, center_z, center_w),
     radius |-> radius]

HyperSphere_contains_mut(self, point) ==
    LET delta == Vector4_sub(point, self.center)
        distance_squared == Vector4_sqr_magnitude(delta)
    IN  distance_squared < self.radius * self.radius

HyperSphere_contains(self, point) ==
    LET delta == Vector4_sub(point, self.center)
        distance_squared == Vector4_sqr_magnitude(delta)
    IN  distance_squared <= self.radius * self.radius

HyperSphere_overlaps(self, other) ==
    LET delta == Vector4_sub(other.center, self.center)
        distance_squared == Vector4_sqr_magnitude(delta)
        radius_sum == self.radius + other.radius
    IN  distance_squared < radius_sum * radius_sum

---------------------------------------------------------------------------
(* Indexed component access: Index<usize> (read) and IndexMut<usize>       *)
(* (write value through the returned reference)                            *)

\* panic!("Index out of bounds"): the call does not return
Panic == [panic |-> "Index out of bounds"]

\* &self.x: the reference a successful access returns
Ref(component) == [value |-> component]

Vector2_index(self, index) ==
    CASE index = 0 -> Ref(self.x)
      [] index = 1 -> Ref(self.y)
      [] OTHER -> Panic

Vector2_index_mut(self, index, value) ==
    CASE index = 0 -> [self EXCEPT !.x = value]
      [] index = 1 -> [self EXCEPT !.y = value]
      [] OTHER -> Panic

Vector3_index_mutant(self, index) ==
    CASE index = 0 -> Ref(self.x)
      [] index = 1 -> Ref(self.y)
      [] OTHER -> Ref(self.z)

Vector3_index(self, index) ==
    CASE index = 0 -> Ref(self.x)
      [] index = 1 -> Ref(self.y)
      [] index = 2 -> Ref(self.z)
      [] OTHER -> Panic

Vector3_index_mut(self, index, value) ==
    CASE index = 0 -> [self EXCEPT !.x = value]
      [] index = 1 -> [self EXCEPT !.y = value]
      [] index = 2 -> [self EXCEPT !.z = value]
      [] OTHER -> Panic

\* Vector4 has no arm for index 3
Vector4_index(self, index) ==
    CASE index = 0 -> Ref(self.x)
      [] index = 1 -> Ref(self.y)
      [] index = 2 -> Ref(self.z)
      [] OTHER -> Panic

Vector4_index_mut(self, index, value) ==
    CASE index = 0 -> [self EXCEPT !.x = value]
      [] index = 1 -> [self EXCEPT !.y = value]
      [] index = 2 -> [self EXCEPT !.z = value]
      [] OTHER -> Panic

---------------------------------------------------------------------------
(* Conversions between vectors of different dimensions: the trailing       *)
(* components are dropped, the missing ones are T::default()               *)

Vector2_from_wider(vector) == [x |-> vector.x, y |-> vector.y]
Vector3_from_Vector4(vector) == [x |-> vector.x, y |-> vector.y, z |-> vector.z]
Vector3_from_Vector2_mut(vector) == [x |-> vector.x, y |-> vector.y, z |-> vector.y]
Vector3_from_Vector2(vector) == [x |-> vector.x, y |-> vector.y, z |-> 0]
Vector4_from_Vector2(vector) == [x |-> vector.x, y |-> vector.y, z |-> 0, w |-> 0]
Vector4_from_Vector3(vector) == [x |-> vector.x, y |-> vector.y, z |-> vector.z, w |-> 0]

Bounds3D_get_size(self) ==
    Vector3_new(self.extents.x + self.extents.x, self.extents.y + self.extents.y, self.extents.z + self.extents.z)

Bounds4D_get_size(self) ==
    Vector4_new(self.extents.x + self.extents.x, self.extents.y + self.extents.y, self.extents.z + self.extents.z, self.extents.w + self.extents.w)

(* Dimension-narrowing conversions of the boxes *)

Rect_from_Area3D(area) ==
    Rect_new(area.lower_left.x, area.lower_left.y, area.upper_right.x - area.lower_left.x, area.upper_right.y - area.lower_left.y)

Rect_from_Bounds3D(bounds) ==
    LET position == Vector2_from_wider(Vector3_sub(bounds.center, bounds.extents))
        size == Vector2_from_wider(Bounds3D_get_size(bounds))
    IN  Rect_new_vectors(position, size)

Rect_from_Area4D(area) ==
    Rect_new(area.lower_left.x, area.lower_left.y, area.upper_right.x - area.lower_left.x, area.upper_right.y - area.lower_left.y)

Rect_from_Bounds4D(bounds) ==
    LET position == Vector2_from_wider(Vector4_sub(bounds.center, bounds.extents))
        size == Vector2_from_wider(Bounds4D_get_size(bounds))
    IN  Rect_new_vectors(position, size)

Area2D_from_Area3D(area) ==
    Area2D_new(area.lower_left.x, area.lower_left.y, area.upper_right.x, area.upper_right.y)

Area2D_from_Bounds3D_mut(bounds) ==
    Area2D_new(bounds.center.x - bounds.extents.x, bounds.center.y - bounds.extents.y, bounds.center.x + bounds.extents.x, bounds.center.y + bounds.extents.z)

Area2D_from_Bounds3D(bounds) ==
    Area2D_new(bounds.center.x - bounds.extents.x, bounds.center.y - bounds.extents.y, bounds.center.x + bounds.extents.x, bounds.center.y + bounds.extents.y)

Area2D_from_Area4D(area) ==
    Area2D_new(area.lower_left.x, area.lower_left.y, area.upper_right.x, area.upper_right.y)

Area2D_from_Bounds4D(bounds) ==
    Area2D_new(bounds.center.x - bounds.extents.x, bounds.center.y - bounds.extents.y, bounds.center.x + bounds.extents.x, bounds.center.y + bounds.extents.y)

Bounds2D_from_Bounds3D(bounds) ==
    Bounds2D_new(bounds.center.x, bounds.center.y, bounds.extents.x, bounds.extents.y)

\* both extents come from get_width()
Bounds2D_from_Area3D(area) ==
    Bounds2D_new(Area3D_get_center(area).x,
                 Area3D_get_center(area).y,
                 DivTwo(Area3D_get_width(area)),
                 DivTwo(Area3D_get_width(area)))

Bounds2D_from_Bounds4D(bounds) ==
    Bounds2D_new(bounds.center.x, bounds.center.y, bounds.extents.x, bounds.extents.y)

\* both extents come from get_width(), which Area4D reads off the w axis
Bounds2D_from_Area4D(area) ==
    Bounds2D_new(Area4D_get_center(area).x,
                 Area4D_get_center(area).y,
                 DivTwo(Area4D_get_width(area)),
                 DivTwo(Area4D_get_width(area)))

Area3D_from_Area4D(area) ==
    Area3D_new(area.lower_left.x, area.lower_left.y, area.lower_left.z, area.upper_right.x, area.upper_right.y, area.upper_right.z)

Area3D_from_Bounds4D(bounds) ==
    Area3D_new(bounds.center.x - bounds.extents.x,
               bounds.center.y - bounds.extents.y,
               bounds.center.z - bounds.extents.z,
               bounds.center.x + bounds.extents.x,
               bounds.center.y + bounds.extents.y,
               bounds.center.z + bounds.extents.z)

Bounds3D_from_Bounds4D(bounds) ==
    Bounds3D_new(bounds.center.x, bounds.center.y, bounds.center.z, bounds.extents.x, bounds.extents.y, bounds.extents.z)

Bounds3D_from_Area4D(area) ==
    Bounds3D_new(Area4D_get_center(area).x,
                 Area4D_get_center(area).y,
                 Area4D_get_center(area).z,
                 DivTwo(Area4D_get_width(area)),
                 DivTwo(Area4D_get_width(area)),
                 DivTwo(Area4D_get_width(area)))

(* Dimension-widening conversions *)

Bounds3D_from_Bounds2D(bounds) ==
    Bounds3D_new(bounds.center.x, bounds.center.y, 0, bounds.extents.x, bounds.extents.y, 0)

Bounds3D_from_Area2D(area) ==
    Bounds3D_new(Area2D_get_center(area).x,
                 Area2D_get_center(area).y,
                 0,
                 DivTwo(Area2D_get_width(area)),
                 DivTwo(Area2D_get_width(area)),
                 0)

Sphere_new_vector(center, radius) == [kind |-> "Sphere", center |-> center, radius |-> radius]

Sphere_from_Circle(circle) ==
    Sphere_new_vector(Vector3_from_Vector2(circle.center), circle.radius)

---------------------------------------------------------------------------
(* Resizing an Area (&mut self): the half of the size delta goes to each   *)
(* corner.  axis is the field the method names: set_width x, set_height y, *)
(* set_depth z, set_hyper_depth w; the code is the same text for each.     *)

Area_set_axis_mut(self, axis, value) ==
    LET current == self.upper_right[axis] - self.lower_left[axis]
        delta == current - value
        half_delta == DivTwo(delta)
    IN  [self EXCEPT !.lower_left[axis] = @ + half_delta,
                     !.upper_right[axis] = @ + half_delta]

Area_set_axis(self, axis, value) ==
    LET current == self.upper_right[axis] - self.lower_left[axis]
        delta == current - value
        half_delta == DivTwo(delta)
    IN  [self EXCEPT !.lower_left[axis] = @ + half_delta,
                     !.upper_right[axis] = @ - half_delta]

Area2D_set_size(self, size) ==
    LET current_size == Area2D_get_size(self)
        delta == Vector2_sub(current_size, size)
        half_delta == Vector2_div_two(delta)
    IN  [self EXCEPT !.lower_left = Vector2_add_assign(@, half_delta),
                     !.upper_right = Vector2_sub_assign(@, half_delta)]

Area3D_set_size(self, size) ==
    LET current_size == Vector3_sub(self.upper_right, self.lower_left)
        delta == Vector3_sub(current_size, size)
        half_delta == Vector3_div_two(delta)
    IN  [self EXCEPT !.lower_left = Vector3_add_assign(@, half_delta),
                     !.upper_right = Vector3_sub_assign(@, half_delta)]

Area4D_set_size(self, size) ==
    LET current_size == Vector4_sub(self.upper_right, self.lower_left)
        delta == Vector4_sub(current_size, size)
        half_delta == Vector4_div_two(delta)
    IN  [self EXCEPT !.lower_left = Vector4_add_assign(@, half_delta),
                     !.upper_right = Vector4_sub_assign(@, half_delta)]

(* Resizing a Bounds: the half of the size delta comes off the extent *)

Bounds_set_axis(self, axis, value) ==
    LET current == self.extents[axis] + self.extents[axis]
        delta == current - value
        half_delta == DivTwo(delta)
    IN  [self EXCEPT !.extents[axis] = @ - half_delta]

Bounds2D_set_size(self, size_x, size_y) ==
    LET current_size == Vector2_new(self.extents.x + self.extents.x, self.extents.y + self.extents.y)
        delta == Vector2_sub(current_size, Vector2_new(size_x, size_y))
        half_delta == Vector2_div_two(delta)
    IN  [self EXCEPT !.extents = Vector2_sub_assign(@, half_delta)]

Bounds3D_set_size(self, size_x, size_y, size_z) ==
    LET current_size == Vector3_new(self.extents.x + self.extents.x, self.extents.y + self.extents.y, self.extents.z + self.extents.z)
        delta == Vector3_sub(current_size, Vector3_new(size_x, size_y, size_z))
        half_delta == Vector3_div_two(delta)
    IN  [self EXCEPT !.extents = Vector3_sub_assign(@, half_delta)]

Bounds4D_set_size(self, size_x, size_y, size_z, size_w) ==
    LET current_size == Vector4_new(self.extents.x + self.extents.x, self.extents.y + self.extents.y, self.extents.z + self.extents.z, self.extents.w + self.extents.w)
        delta == Vector4_sub(current_size, Vector4_new(size_x, size_y, size_z, size_w))
        half_delta == Vector4_div_two(delta)
    IN  [self EXCEPT !.extents = Vector4_sub_assign(@, half_delta)]

\* Rect and Cube keep the size in fields of their own
Rect_get_size(self) == Vector2_new(self.width, self.height)
Rect_set_size(self, size) == [self EXCEPT !.width = size.x, !.height = size.y]
Rect_set_center(self, center) ==
    [self EXCEPT !.x = center.x - DivTwo(self.width), !.y = center.y - DivTwo(self.height)]

Cube_get_size(self) == Vector3_new(self.width, self.height, self.depth)
Cube_set_size(self, size) ==
    [self EXCEPT !.width = size.x, !.height = size.y, !.depth = size.z]
Cube_set_center(self, center) ==
    [self EXCEPT !.x = center.x - DivTwo(self.width),
                 !.y = center.y - DivTwo(self.height),
                 !.z = center.z - DivTwo(self.depth)]

\* Area::set_center: both corners are moved by the same delta with +=
Area2D_set_center(self, center) ==
    LET current_center == Area2D_get_center(self)
        delta == Vector2_sub(center, current_center)
    IN  [self EXCEPT !.lower_left = Vector2_add_assign(@, delta),
                     !.upper_right = Vector2_add_assign(@, delta)]

Area3D_set_center(self, center) ==
    LET current_center == Area3D_get_center(self)
        delta == Vector3_sub(center, current_center)
    IN  [self EXCEPT !.lower_left = Vector3_add_assign(@, delta),
                     !.upper_right = Vector3_add_assign(@, delta)]

Area4D_set_center(self, center) ==
    LET current_center == Area4D_get_center(self)
        delta == Vector4_sub(center, current_center)
    IN  [self EXCEPT !.lower_left = Vector4_add_assign(@, delta),
                     !.upper_right = Vector4_add_assign(@, delta)]

\* get_height, get_depth, get_hyper_depth of the Areas and every per-axis
\* getter of the Bounds: the extent on the axis the method names
Area_get_axis(self, axis) == self.upper_right[axis] - self.lower_left[axis]
Bounds_get_axis(self, axis) == self.extents[axis] + self.extents[axis]

Area3D_get_size(self) ==
    Vector3_new(self.upper_right.x - self.lower_left.x, self.upper_right.y - self.lower_left.y, self.upper_right.z - self.lower_left.z)
Area4D_get_size(self) ==
    Vector4_new(self.upper_right.x - self.lower_left.x, self.upper_right.y - self.lower_left.y, self.upper_right.z - self.lower_left.z, self.upper_right.w - self.lower_left.w)

Area2D_set_width(self, width) == Area_set_axis(self, "x", width)
Area2D_set_height(self, height) == Area_set_axis(self, "y", height)
Area3D_set_width(self, width) == Area_set_axis(self, "x", width)
Area3D_set_height(self, height) == Area_set_axis(self, "y", height)
Area3D_set_depth(self, depth) == Area_set_axis(self, "z", depth)
Area4D_set_width(self, width) == Area_set_axis(self, "x", width)
Area4D_set_height(self, height) == Area_set_axis(self, "y", height)
Area4D_set_depth(self, depth) == Area_set_axis(self, "z", depth)
Area4D_set_hyper_depth(self, depth) == Area_set_axis(self, "w", depth)
Bounds2D_set_width(self, width) == Bounds_set_axis(self, "x", width)
Bounds2D_set_height(self, height) == Bounds_set_axis(self, "y", height)
Bounds3D_set_width(self, width) == Bounds_set_axis(self, "x", width)
Bounds3D_set_height(self, height) == Bounds_set_axis(self, "y", height)
Bounds3D_set_depth(self, depth) == Bounds_set_axis(self, "z", depth)
Bounds4D_set_width(self, width) == Bounds_set_axis(self, "x", width)
Bounds4D_set_height(self, height) == Bounds_set_axis(self, "y", height)
Bounds4D_set_depth(self, depth) == Bounds_set_axis(self, "z", depth)
Bounds4D_set_hyper_depth(self, depth) == Bounds_set_axis(self, "w", depth)

---------------------------------------------------------------------------
(* Easing and interpolation (src/src/interpolate.rs).  The curves raise    *)
(* their argument to the eighth power and use decimal constants, so T is   *)
(* here an exact fraction n / d in lowest terms with d > 0.                *)

RECURSIVE GCD(_, _)
GCD(a, b) == IF b = 0 THEN a ELSE GCD(b, a % b)

Abs(a) == IF a < 0 THEN 0 - a ELSE a

Frac(n, d) ==
    LET g == GCD(Abs(n), Abs(d))
        s == IF d < 0 THEN 0 - 1 ELSE 1
    IN  [n |-> s * (n \div g), d |-> s * (d \div g)]

FAdd(a, b) ==
    LET g == GCD(a.d, b.d)
    IN  Frac(a.n * (b.d \div g) + b.n * (a.d \div g), a.d * (b.d \div g))
FNeg(a) == [n |-> 0 - a.n, d |-> a.d]
FSub(a, b) == FAdd(a, FNeg(b))
FMul(a, b) ==
    LET g1 == GCD(Abs(a.n), b.d)
        g2 == GCD(Abs(b.n), a.d)
    IN  Frac((a.n \div g1) * (b.n \div g2), (a.d \div g2) * (b.d \div g1))
FDiv(a, b) == FMul(a, Frac(b.d, b.n))
FLt(a, b) == a.n * b.d < b.n * a.d

\* T::zero(), T::one() and the sums of T::one() the curves build
FZero == Frac(0, 1)
FOne == Frac(1, 1)
FTwo == FAdd(FOne, FOne)
FTen == FAdd(FAdd(FAdd(FAdd(FTwo, FTwo), FTwo), FTwo), FTwo)

\* v * v * ... * v, n factors
RECURSIVE Power(_, _)
Power(v, n) == IF n = 1 THEN v ELSE FMul(Power(v, n - 1), v)

\* two.powf(e), for the whole exponents
Powf2(e) ==
    CASE e.d = 1 /\ e.n >= 0 -> Frac(2 ^ e.n, 1)
      [] e.d = 1 /\ e.n < 0 -> Frac(1, 2 ^ (0 - e.n))

\* Real::sqrt, for the squares of fractions
FSqrt(a) ==
    Frac(CHOOSE r \in 0..a.n : r * r = a.n, CHOOSE r \in 1..a.d : r * r = a.d)

\* Angles are counted in multiples of pi: T::pi() is 1 on that scale, and sin
\* and cos are taken of the multiples of pi / 2
FPi == Frac(1, 1)
QuarterTurns(a) == (FMul(a, FTwo).n) % 4
FSin(a) ==
    CASE FMul(a, FTwo).d = 1 /\ QuarterTurns(a) \in {0, 2} -> FZero
      [] FMul(a, FTwo).d = 1 /\ QuarterTurns(a) = 1 -> FOne
      [] FMul(a, FTwo).d = 1 /\ QuarterTurns(a) = 3 -> FNeg(FOne)
FCos(a) == FSin(FAdd(a, Frac(1, 2)))

interpolate_mut(a, b, t) == FAdd(a, FMul(b, t))

interpolate(a, b, t) == FAdd(a, FMul(FSub(b, a), t))

\* t < T::one() / two, the test every *_inout curve branches on
Lower(t) == FLt(t, FDiv(FOne, FTwo))

linear(t) == t

sine_in(t) == FSub(FOne, FCos(FDiv(FMul(t, FPi), FTwo)))
sine_out(t) == FSin(FDiv(FMul(t, FPi), FTwo))
sine_inout(t) == FDiv(FNeg(FSub(FCos(FMul(t, FPi)), FOne)), FTwo)

\* v = -two * t + two of the upper branches
Mirror(t) == FAdd(FMul(FNeg(FTwo), t), FTwo)

\* The polynomial curves of degree n: quad 2, cubic 3, quart 4, quint 5,
\* sext 6, sept 7, oct 8; the source repeats the text with one factor more
poly_in(n, t) == Power(t, n)
poly_out(n, t) == FSub(FOne, Power(FSub(FOne, t), n))
poly_inout_at(n, t, lower) ==
    IF lower
    THEN FMul(FTwo, Power(t, n))
    ELSE FSub(FOne, FDiv(Power(Mirror(t), n), FTwo))

quad_in(t) == poly_in(2, t)
quad_out(t) == poly_out(2, t)
quad_inout_at(t, lower) == poly_inout_at(2, t, lower)
cubic_in(t) == poly_in(3, t)
cubic_out(t) == poly_out(3, t)
cubic_inout_at(t, lower) == poly_inout_at(3, t, lower)
quart_in(t) == poly_in(4, t)
quart_out(t) == poly_out(4, t)
quart_inout_at(t, lower) == poly_inout_at(4, t, lower)
quint_in(t) == poly_in(5, t)
quint_out(t) == poly_out(5, t)
quint_inout_at(t, lower) == poly_inout_at(5, t, lower)
sext_in(t) == poly_in(6, t)
sext_out(t) == poly_out(6, t)
sext_inout_at(t, lower) == poly_inout_at(6, t, lower)
sept_in(t) == poly_in(7, t)
sept_out(t) == poly_out(7, t)
sept_inout_at(t, lower) == poly_inout_at(7, t, lower)
oct_in(t) == poly_in(8, t)
oct_out(t) == poly_out(8, t)
oct_inout_at(t, lower) == poly_inout_at(8, t, lower)

expo_in(t) ==
    IF t = FZero THEN FZero ELSE Powf2(FSub(FMul(FTen, t), FTen))

expo_out(t) ==
    IF t = FOne THEN FOne ELSE FSub(FOne, Powf2(FMul(FNeg(FTen), t)))

expo_inout_at(t, lower) ==
    IF t = FZero THEN FZero
    ELSE IF t = FOne THEN FOne
    ELSE IF lower
         THEN FDiv(Powf2(FSub(FMul(FAdd(FTen, FTen), t), FTen)), FTwo)
         ELSE FSub(FTwo, FDiv(Powf2(FAdd(FMul(FNeg(FAdd(FTen, FTen)), t), FTen)), FTwo))

circ_in(t) == FSub(FOne, FSqrt(FSub(FOne, FMul(t, t))))

circ_out(t) ==
    LET v == FSub(t, FOne)
    IN  FSqrt(FSub(FOne, FMul(v, v)))

circ_inout_at(t, lower) ==
    IF lower
    THEN LET v == FMul(FTwo, t)
         IN  FDiv(FSub(FOne, FSqrt(FSub(FOne, FMul(v, v)))), FTwo)
    ELSE LET v == Mirror(t)
         IN  FDiv(FAdd(FSqrt(FSub(FOne, FMul(v, v))), FOne), FTwo)

\* T::from(1.70158), T::from(3.22658)
BackC1 == Frac(170158, 100000)
BackC3 == Frac(322658, 100000)

back_in(t) ==
    LET c1 == BackC1
        c2 == FAdd(c1, FOne)
    IN  FSub(FMul(c2, Power(t, 3)), FMul(c1, Power(t, 2)))

back_out(t) ==
    LET c1 == BackC1
        c2 == FAdd(c1, FOne)
        v == FSub(t, FOne)
    IN  FAdd(FAdd(FMul(c2, Power(v, 3)), FMul(c1, Power(v, 2))), FOne)

back_inout_at(t, lower) ==
    LET c3 == BackC3
    IN  IF lower
        THEN LET v == FMul(FTwo, t)
             IN  FDiv(FMul(FMul(v, v), FSub(FMul(FMul(FAdd(c3, FOne), FTwo), t), c3)), FTwo)
        ELSE LET v == FSub(FMul(FTwo, t), FTwo)
             IN  FDiv(FMul(FMul(v, v), FAdd(FAdd(FMul(FAdd(c3, FOne), v), c3), FTwo)), FTwo)

elastic_in(t) ==
    LET three == FAdd(FTwo, FOne)
        four == FAdd(FTwo, FTwo)
        c4 == FDiv(FMul(FTwo, FPi), FDiv(FOne, three))
        ten == FAdd(FAdd(four, four), FTwo)
        ten_and_three_quarters == FAdd(ten, FDiv(three, four))
    IN  IF t = FZero THEN FZero
        ELSE IF t = FOne THEN FOne
        ELSE FMul(FNeg(Powf2(FSub(FMul(ten, t), ten))),
                  FSin(FMul(FSub(FMul(t, ten), ten_and_three_quarters), c4)))

---------------------------------------------------------------------------
(* The derived quantities of the ball shapes (diameter, circumference,     *)
(* area, volume, surface volume).  They are products, quotients and roots  *)
(* of the radius, of sums of T::one() and of T::pi(), so T is here zero or *)
(* a signed monomial 2^two * 3^three * pi^pi with fractions as exponents.  *)

Mono(sign, two, three, pi) == [sign |-> sign, two |-> two, three |-> three, pi |-> pi]

MZero == Mono(0, FZero, FZero, FZero)
MOne == Mono(1, FZero, FZero, FZero)
\* T::one() + T::one(), T::one() + T::one() + T::one(), and four of them
MTwo == Mono(1, FOne, FZero, FZero)
MThree == Mono(1, FZero, FOne, FZero)
MFour == Mono(1, FTwo, FZero, FZero)
MPi == Mono(1, FZero, FZero, FOne)

MMul(a, b) ==
    IF a.sign = 0 \/ b.sign = 0
    THEN MZero
    ELSE Mono(a.sign * b.sign, FAdd(a.two, b.two), FAdd(a.three, b.three), FAdd(a.pi, b.pi))

\* the divisors are products of the constants, never zero
MDiv(a, b) ==
    CASE b.sign # 0 -> MMul(a, Mono(b.sign, FNeg(b.two), FNeg(b.three), FNeg(b.pi)))

\* the n-th root
MRoot(a, n) ==
    Mono(a.sign, FDiv(a.two, Frac(n, 1)), FDiv(a.three, Frac(n, 1)), FDiv(a.pi, Frac(n, 1)))

\* Real::sqrt, of what is not negative, and Real::cbrt
MSqrt(a) == CASE a.sign >= 0 -> MRoot(a, 2)
MCbrt(a) == MRoot(a, 3)

\* Circle, Sphere, HyperSphere: radius + radius
Ball_get_diameter(self) == MMul(MTwo, self.radius)
Ball_set_diameter(self, diameter) == [self EXCEPT !.radius = MDiv(diameter, MTwo)]

\* Circle, Sphere
Ball_get_circumference(self) == MMul(MMul(self.radius, MTwo), MPi)
Ball_set_circumference(self, circumference) ==
    [self EXCEPT !.radius = MDiv(circumference, MMul(MTwo, MPi))]

Circle_get_area(self) == MMul(MMul(self.radius, self.radius), MPi)
Circle_set_area(self, area) == [self EXCEPT !.radius = MSqrt(MDiv(area, MPi))]

\* four * pi * radius * two
Sphere_get_area(self) == MMul(MMul(MMul(MFour, MPi), self.radius), MTwo)
Sphere_set_area(self, area) == [self EXCEPT !.radius = MSqrt(MDiv(area, MMul(MFour, MPi)))]

Sphere_get_volume(self) ==
    MMul(MMul(MMul(MMul(MDiv(MFour, MThree), MPi), self.radius), self.radius), self.radius)
\* (area / (four / three) * pi).cbrt()
Sphere_set_volume(self, area) ==
    [self EXCEPT !.radius = MCbrt(MMul(MDiv(area, MDiv(MFour, MThree)), MPi))]

HyperSphere_get_surface_volume(self) ==
    MMul(MMul(MMul(MMul(MMul(MTwo, MPi), MPi), self.radius), self.radius), self.radius)
HyperSphere_set_surface_volume(self, area) ==
    [self EXCEPT !.radius = MCbrt(MDiv(area, MMul(MMul(MTwo, MPi), MPi)))]

HyperSphere_get_volume(self) ==
    MDiv(MMul(MMul(MMul(MMul(MMul(MPi, MPi), self.radius), self.radius), self.radius), self.radius), MTwo)
HyperSphere_set_volume(self, area) ==
    [self EXCEPT !.radius = MCbrt(MMul(MDiv(area, MDiv(MFour, MThree)), MPi))]

---------------------------------------------------------------------------
(* Method dispatch on the type of the receiver *)

IsBox2D(s) == s.kind \in {"Rect", "Area2D", "Bounds2D"}
IsBox3D(s) == s.kind \in {"Cube", "Area3D", "Bounds3D"}
IsBox4D(s) == s.kind \in {"Area4D", "Bounds4D"}
IsBox(s) == IsBox2D(s) \/ IsBox3D(s) \/ IsBox4D(s)
IsBall(s) == s.kind \in {"Circle", "Sphere", "HyperSphere"}

\* self.contains(point)
contains(self, point) ==
    CASE self.kind = "Rect" -> Rect_contains(self, point)
      [] self.kind = "Area2D" -> Area2D_contains(self, point)
      [] self.kind = "Bounds2D" -> Bounds2D_contains(self, point)
      [] self.kind = "Cube" -> Cube_contains(self, point)
      [] self.kind = "Area3D" -> Area3D_contains(self, point)
      [] self.kind = "Bounds3D" -> Bounds3D_contains(self, point)
      [] self.kind = "Area4D" -> Area4D_contains(self, point)
      [] self.kind = "Bounds4D" -> Bounds4D_contains(self, point)

\* self.overlaps(&other), other of the type of self
overlaps(self, other) ==
    CASE self.kind = "Rect" -> Rect_overlaps(self, other)
      [] self.kind = "Area2D" -> Area2D_overlaps(self, other)
      [] self.kind = "Bounds2D" -> Bounds2D_overlaps(self, other)
      [] self.kind = "Cube" -> Cube_overlaps(self, other)
      [] self.kind = "Area3D" -> Area3D_overlaps(self, other)
      [] self.kind = "Bounds3D" -> Bounds3D_overlaps(self, other)
      [] self.kind = "Area4D" -> Area4D_overlaps(self, other)
      [] self.kind = "Bounds4D" -> Bounds4D_overlaps(self, other)
      [] self.kind = "Circle" -> Circle_overlaps(self, other)
      [] self.kind = "Sphere" -> Sphere_overlaps(self, other)
      [] self.kind = "HyperSphere" -> HyperSphere_overlaps(self, other)

\* the center of a box: get_center() for Rect, Cube and Area, the center
\* field for Bounds (which has no get_center)
center_of(self) ==
    CASE self.kind = "Rect" -> Rect_get_center(self)
      [] self.kind = "Area2D" -> Area2D_get_center(self)
      [] self.kind = "Cube" -> Cube_get_center(self)
      [] self.kind = "Area3D" -> Area3D_get_center(self)
      [] self.kind = "Area4D" -> Area4D_get_center(self)
      [] self.kind \in {"Bounds2D", "Bounds3D", "Bounds4D"} -> self.center

---------------------------------------------------------------------------
(* Input values: whole numbers for the fields of the constructed shapes,   *)
(* a grid of half steps around them for the points and shapes they are     *)
(* queried with.                                                           *)

Pos == {k * Unit : k \in 0..MaxCoord}
Sizes == {k * Unit : k \in (0 - MaxCoord)..MaxCoord}
PointVals == {k * Two : k \in (0 - 2 * MaxCoord)..(4 * MaxCoord + 1)}
OtherPos == Pos \cup {Two}
Radii == Sizes \cup {Two}

Rects == {Rect_new(x, y, w, h) : x \in Pos, y \in Pos, w \in Sizes, h \in Sizes}
Area2Ds == {Area2D_new(a, b, c, d) : a \in Pos, b \in Pos, c \in Pos, d \in Pos}
Bounds2Ds ==
    {Bounds2D_new(a, b, c, d) : a \in Pos, b \in Pos, c \in Sizes, d \in Sizes}
Circles == {Circle_new(a, b, r) : a \in Pos, b \in Pos, r \in Sizes}

Vec3s(S) == {Vector3_new(a, b, c) : a \in S, b \in S, c \in S}
Vec4s(S) == {Vector4_new(a, b, c, d) : a \in S, b \in S, c \in S, d \in S}

Cubes == {Cube_new_vectors(p, s) : p \in Vec3s(Pos), s \in Vec3s(Sizes)}
Area3Ds == {Area3D_new_vectors(l, u) : l \in Vec3s(Pos), u \in Vec3s(Pos)}
Bounds3Ds == {Bounds3D_new_vectors(c, e) : c \in Vec3s(Pos), e \in Vec3s(Sizes)}
Spheres == {Sphere_new(c.x, c.y, c.z, r) : c \in Vec3s(Pos), r \in Sizes}

Area4Ds == {Area4D_new_vectors(l, u) : l \in Vec4s(Pos), u \in Vec4s(Pos)}
Bounds4Ds == {Bounds4D_new_vectors(c, e) : c \in Vec4s(Pos), e \in Vec4s(Sizes)}
HyperSpheres ==
    {HyperSphere_new(c.x, c.y, c.z, c.w, r) : c \in Vec4s(Pos), r \in Sizes}

\* segments between the points of a whole-number grid
LineVals == {k * Unit : k \in 0..(MaxCoord + 1)}
Line2Ds ==
    {Line2D_new(a, b, c, d) :
        a \in LineVals, b \in LineVals, c \in LineVals, d \in LineVals}
Line3Ds ==
    {Line3D_new_vectors(p, q) : p \in Vec3s(Pos), q \in Vec3s(LineVals)}
Line4Ds ==
    {Line4D_new_vectors(p, q) : p \in Vec4s(Pos), q \in Vec4s(LineVals)}
Lines == Line2Ds \cup Line3Ds \cup Line4Ds

\* bare vectors, each held with the name of its type
Vector_of(name, v) == [kind |-> name, v |-> v]
Vectors ==
    {Vector_of("Vector2", Vector2_new(a, b)) : a \in OtherPos, b \in OtherPos}
        \cup {Vector_of("Vector3", v) : v \in Vec3s(OtherPos)}
        \cup {Vector_of("Vector4", v) : v \in Vec4s(OtherPos)}

Boxes ==
    Rects \cup Area2Ds \cup Bounds2Ds \cup Cubes \cup Area3Ds \cup Bounds3Ds
        \cup Area4Ds \cup Bounds4Ds
Balls == Circles \cup Spheres \cup HyperSpheres

\* points a shape is queried with: every grid point in 2D, the points with
\* equal coordinates in 3D and 4D (the receiver varies freely on each axis)
PointsFor(s) ==
    CASE s.kind \in {"Rect", "Area2D", "Bounds2D", "Circle"} ->
            {Vector2_new(a, b) : a \in PointVals, b \in PointVals}
      [] s.kind \in {"Cube", "Area3D", "Bounds3D", "Sphere"} ->
            {Vector3_new(a, a, a) : a \in PointVals}
      [] s.kind \in {"Area4D", "Bounds4D", "HyperSphere"} ->
            {Vector4_new(a, a, a, a) : a \in PointVals}

\* second operands of the type of s: every combination in 2D, the shapes
\* with the same interval on every axis in 3D and 4D
OthersFor(s) ==
    CASE s.kind = "Rect" ->
            {Rect_new(x, y, w, h) :
                x \in OtherPos, y \in OtherPos, w \in Sizes, h \in Sizes}
      [] s.kind = "Area2D" ->
            {Area2D_new(a, b, c, d) :
                a \in OtherPos, b \in OtherPos, c \in OtherPos, d \in OtherPos}
      [] s.kind = "Bounds2D" ->
            {Bounds2D_new(a, b, c, d) :
                a \in OtherPos, b \in OtherPos, c \in Sizes, d \in Sizes}
      [] s.kind = "Circle" ->
            {Circle_new(a, b, r) : a \in OtherPos, b \in OtherPos, r \in Radii}
      [] s.kind = "Cube" ->
            {Cube_new(m, m, m, d, d, d) : m \in OtherPos, d \in Sizes}
      [] s.kind = "Area3D" ->
            {Area3D_new(m, m, m, n, n, n) : m \in OtherPos, n \in OtherPos}
      [] s.kind = "Bounds3D" ->
            {Bounds3D_new(m, m, m, d, d, d) : m \in OtherPos, d \in Sizes}
      [] s.kind = "Sphere" ->
            {Sphere_new(m, m, m, r) : m \in OtherPos, r \in Radii}
      [] s.kind = "Area4D" ->
            {Area4D_new(m, m, m, m, n, n, n, n) :
                m \in OtherPos, n \in OtherPos}
      [] s.kind = "Bounds4D" ->
            {Bounds4D_new(m, m, m, m, d, d, d, d) : m \in OtherPos, d \in Sizes}
      [] s.kind = "HyperSphere" ->
            {HyperSphere_new(m, m, m, m, r) : m \in OtherPos, r \in Radii}

\* circles a Rect is tested against
ProbeCircles ==
    {Circle_new(a, b, r) : a \in PointVals, b \in PointVals, r \in Radii}

None == [op |-> "none"]

---------------------------------------------------------------------------
(* The same region in the three representations (inputs of the queries    *)
(* that compare representations): the Rect or Cube gives the min corner   *)
(* and the size, the Area the two corners, the Bounds center and half     *)
(* size.                                                                   *)

SameArea(r) ==
    IF r.kind = "Rect"
    THEN Area2D_new(r.x, r.y, r.x + r.width, r.y + r.height)
    ELSE Area3D_new(r.x, r.y, r.z,
                    r.x + r.width, r.y + r.height, r.z + r.depth)

SameBounds(r) ==
    IF r.kind = "Rect"
    THEN Bounds2D_new(r.x + DivTwo(r.width), r.y + DivTwo(r.height),
                      DivTwo(r.width), DivTwo(r.height))
    ELSE Bounds3D_new(r.x + DivTwo(r.width), r.y + DivTwo(r.height),
                      r.z + DivTwo(r.depth),
                      DivTwo(r.width), DivTwo(r.height), DivTwo(r.depth))

---------------------------------------------------------------------------
(* Initial state: a freshly constructed shape *)

Init ==
    /\ shape \in Boxes \cup Balls \cup Lines \cup Vectors
    /\ orig = shape
    /\ hist = <<>>
    /\ arg = None
    /\ ret = None

---------------------------------------------------------------------------
(* Conversions (the From impls): the value is replaced by its conversion *)

Convert(from, name, to) ==
    /\ shape.kind = from
    /\ Len(hist) < MaxSteps
    /\ shape' = to
    /\ hist' = Append(hist, name)
    /\ UNCHANGED <<orig, arg, ret>>

RectFromArea2D == Convert("Area2D", "Rect::from(Area2D)", Rect_from_Area2D(shape))
RectFromBounds2D ==
    Convert("Bounds2D", "Rect::from(Bounds2D)", Rect_from_Bounds2D(shape))
Area2DFromRect == Convert("Rect", "Area2D::from(Rect)", Area2D_from_Rect(shape))
Area2DFromBounds2D ==
    Convert("Bounds2D", "Area2D::from(Bounds2D)", Area2D_from_Bounds2D(shape))
Bounds2DFromRect ==
    Convert("Rect", "Bounds2D::from(Rect)", Bounds2D_from_Rect(shape))
Bounds2DFromArea2D ==
    Convert("Area2D", "Bounds2D::from(Area2D)", Bounds2D_from_Area2D(shape))
CubeFromArea3D == Convert("Area3D", "Cube::from(Area3D)", Cube_from_Area3D(shape))
CubeFromBounds3D ==
    Convert("Bounds3D", "Cube::from(Bounds3D)", Cube_from_Bounds3D(shape))
Area3DFromBounds3D ==
    Convert("Bounds3D", "Area3D::from(Bounds3D)", Area3D_from_Bounds3D(shape))
Bounds3DFromArea3D ==
    Convert("Area3D", "Bounds3D::from(Area3D)", Bounds3D_from_Area3D(shape))
Area4DFromBounds4D ==
    Convert("Bounds4D", "Area4D::from(Bounds4D)", Area4D_from_Bounds4D(shape))
Bounds4DFromArea4D ==
    Convert("Area4D", "Bounds4D::from(Area4D)", Bounds4D_from_Area4D(shape))

\* the conversions to a type of lower dimension, then those to a type of
\* higher dimension
RectFromArea3D ==
    Convert("Area3D", "Rect::from(Area3D)", Rect_from_Area3D(shape))
RectFromBounds3D ==
    Convert("Bounds3D", "Rect::from(Bounds3D)", Rect_from_Bounds3D(shape))
RectFromArea4D ==
    Convert("Area4D", "Rect::from(Area4D)", Rect_from_Area4D(shape))
RectFromBounds4D ==
    Convert("Bounds4D", "Rect::from(Bounds4D)", Rect_from_Bounds4D(shape))
Area2DFromArea3D ==
    Convert("Area3D", "Area2D::from(Area3D)", Area2D_from_Area3D(shape))
Area2DFromBounds3D ==
    Convert("Bounds3D", "Area2D::from(Bounds3D)", Area2D_from_Bounds3D(shape))
Area2DFromArea4D ==
    Convert("Area4D", "Area2D::from(Area4D)", Area2D_from_Area4D(shape))
Area2DFromBounds4D ==
    Convert("Bounds4D", "Area2D::from(Bounds4D)", Area2D_from_Bounds4D(shape))
Bounds2DFromBounds3D ==
    Convert("Bounds3D", "Bounds2D::from(Bounds3D)", Bounds2D_from_Bounds3D(shape))
Bounds2DFromArea3D ==
    Convert("Area3D", "Bounds2D::from(Area3D)", Bounds2D_from_Area3D(shape))
Bounds2DFromBounds4D ==
    Convert("Bounds4D", "Bounds2D::from(Bounds4D)", Bounds2D_from_Bounds4D(shape))
Bounds2DFromArea4D ==
    Convert("Area4D", "Bounds2D::from(Area4D)", Bounds2D_from_Area4D(shape))
Area3DFromArea4D ==
    Convert("Area4D", "Area3D::from(Area4D)", Area3D_from_Area4D(shape))
Area3DFromBounds4D ==
    Convert("Bounds4D", "Area3D::from(Bounds4D)", Area3D_from_Bounds4D(shape))
Bounds3DFromBounds4D ==
    Convert("Bounds4D", "Bounds3D::from(Bounds4D)", Bounds3D_from_Bounds4D(shape))
Bounds3DFromArea4D ==
    Convert("Area4D", "Bounds3D::from(Area4D)", Bounds3D_from_Area4D(shape))
Bounds3DFromBounds2D ==
    Convert("Bounds2D", "Bounds3D::from(Bounds2D)", Bounds3D_from_Bounds2D(shape))
Bounds3DFromArea2D ==
    Convert("Area2D", "Bounds3D::from(Area2D)", Bounds3D_from_Area2D(shape))
SphereFromCircle ==
    Convert("Circle", "Sphere::from(Circle)", Sphere_from_Circle(shape))

\* the conversions of the vectors to a higher dimension
Vector3FromVector2 ==
    Convert("Vector2", "Vector3::from(Vector2)", Vector_of("Vector3", Vector3_from_Vector2(shape.v)))
Vector4FromVector2 ==
    Convert("Vector2", "Vector4::from(Vector2)", Vector_of("Vector4", Vector4_from_Vector2(shape.v)))
Vector4FromVector3 ==
    Convert("Vector3", "Vector4::from(Vector3)", Vector_of("Vector4", Vector4_from_Vector3(shape.v)))

Next ==
    \/ RectFromArea2D
    \/ RectFromBounds2D
    \/ Area2DFromRect
    \/ Area2DFromBounds2D
    \/ Bounds2DFromRect
    \/ Bounds2DFromArea2D
    \/ CubeFromArea3D
    \/ CubeFromBounds3D
    \/ Area3DFromBounds3D
    \/ Bounds3DFromArea3D
    \/ Area4DFromBounds4D
    \/ Bounds4DFromArea4D
    \/ RectFromArea3D
    \/ RectFromBounds3D
    \/ RectFromArea4D
    \/ RectFromBounds4D
    \/ Area2DFromArea3D
    \/ Area2DFromBounds3D
    \/ Area2DFromArea4D
    \/ Area2DFromBounds4D
    \/ Bounds2DFromBounds3D
    \/ Bounds2DFromArea3D
    \/ Bounds2DFromBounds4D
    \/ Bounds2DFromArea4D
    \/ Area3DFromArea4D
    \/ Area3DFromBounds4D
    \/ Bounds3DFromBounds4D
    \/ Bounds3DFromArea4D
    \/ Bounds3DFromBounds2D
    \/ Bounds3DFromArea2D
    \/ SphereFromCircle
    \/ Vector3FromVector2
    \/ Vector4FromVector2
    \/ Vector4FromVector3

Spec == Init /\ [][Next]_vars

---------------------------------------------------------------------------
(* Queries (&self methods returning bool): the value is left alone, the    *)
(* argument and the returned value are recorded.  A query reads nothing    *)
(* but the value and its argument, so one query per constructed value      *)
(* covers every call.                                                      *)

Fresh == ret.op = "none"

Query(a, r) ==
    /\ arg' = a
    /\ ret' = r
    /\ UNCHANGED <<shape, orig, hist>>

\* box.contains(point)
Contains ==
    /\ Fresh
    /\ IsBox(shape)
    /\ \E p \in PointsFor(shape) :
          Query(p, [op |-> "contains", val |-> contains(shape, p)])

\* box.contains(box.get_center())
ContainsCenter ==
    /\ Fresh
    /\ IsBox(shape)
    /\ Query(center_of(shape),
             [op |-> "contains_center",
              val |-> contains(shape, center_of(shape))])

\* contains(point) on the Rect or Cube and on the Area and the Bounds that
\* describe the same region
ContainsReprs ==
    /\ Fresh
    /\ shape.kind \in {"Rect", "Cube"}
    /\ \E p \in PointsFor(shape) :
          Query(p, [op |-> "contains_reprs",
                    rect |-> contains(shape, p),
                    area |-> contains(SameArea(shape), p),
                    bounds |-> contains(SameBounds(shape), p)])

\* ball.contains(point)
ball_contains(self, point) ==
    CASE self.kind = "Circle" -> Circle_contains(self, point)
      [] self.kind = "Sphere" -> Sphere_contains(self, point)
      [] self.kind = "HyperSphere" -> HyperSphere_contains(self, point)

\* the ball with the same center and the radius negated
NegRadius(b) == [b EXCEPT !.radius = 0 - b.radius]

\* ball.contains(point), and the same call on the ball of radius -r
BallContains ==
    /\ Fresh
    /\ IsBall(shape)
    /\ \E p \in PointsFor(shape) :
          Query(p, [op |-> "ball_contains",
                    val |-> ball_contains(shape, p),
                    neg |-> ball_contains(NegRadius(shape), p)])

\* ball.overlaps(&other), and the same call with the radius of the receiver,
\* of the argument and of both negated
BallOverlaps ==
    /\ Fresh
    /\ IsBall(shape)
    /\ \E o \in OthersFor(shape) :
          Query(o, [op |-> "ball_overlaps",
                    val |-> overlaps(shape, o),
                    neg_self |-> overlaps(NegRadius(shape), o),
                    neg_other |-> overlaps(shape, NegRadius(o)),
                    neg_both |-> overlaps(NegRadius(shape), NegRadius(o))])

\* a.overlaps(&b) and b.overlaps(&a)
Overlaps ==
    /\ Fresh
    /\ IsBox(shape) \/ IsBall(shape)
    /\ \E o \in OthersFor(shape) :
          Query(o, [op |-> "overlaps",
                    val |-> overlaps(shape, o),
                    rev |-> overlaps(o, shape)])

\* every overlap call there is between the representations of two regions
CrossOverlapCalls(X, Y) ==
    IF X.kind = "Rect"
    THEN [rect_overlaps |-> Rect_overlaps(X, Y),
          rect_overlaps_area |-> Rect_overlaps_area(X, SameArea(Y)),
          rect_overlaps_bounds |-> Rect_overlaps_bounds(X, SameBounds(Y)),
          area_overlaps |-> Area2D_overlaps(SameArea(X), SameArea(Y)),
          area_overlaps_rect |-> Area2D_overlaps_rect(SameArea(X), Y),
          area_overlaps_bounds |->
              Area2D_overlaps_bounds(SameArea(X), SameBounds(Y)),
          bounds_overlaps |-> Bounds2D_overlaps(SameBounds(X), SameBounds(Y)),
          bounds_overlaps_rect |-> Bounds2D_overlaps_rect(SameBounds(X), Y),
          bounds_overlaps_area |->
              Bounds2D_overlaps_area(SameBounds(X), SameArea(Y))]
    ELSE [cube_overlaps |-> Cube_overlaps(X, Y),
          cube_overlaps_area |-> Cube_overlaps_area(X, SameArea(Y)),
          cube_overlaps_bounds |-> Cube_overlaps_bounds(X, SameBounds(Y)),
          area_overlaps |-> Area3D_overlaps(SameArea(X), SameArea(Y)),
          area_overlaps_bounds |->
              Area3D_overlaps_bounds(SameArea(X), SameBounds(Y)),
          bounds_overlaps |-> Bounds3D_overlaps(SameBounds(X), SameBounds(Y)),
          bounds_overlaps_area |->
              Bounds3D_overlaps_area(SameBounds(X), SameArea(Y))]

CrossOverlaps ==
    /\ Fresh
    /\ shape.kind \in {"Rect", "Cube"}
    /\ \E o \in OthersFor(shape) :
          Query(o, [op |-> "cross_overlaps",
                    calls |-> CrossOverlapCalls(shape, o)])

\* rect.overlaps_circle(circle)
OverlapsCircle ==
    /\ Fresh
    /\ shape.kind = "Rect"
    /\ \E c \in ProbeCircles :
          Query(c, [op |-> "overlaps_circle",
                    val |-> Rect_overlaps_circle(shape, c)])

\* a returned bool
Returned(v) == [bool |-> v]

\* overlaps_circle(circle) on the Rect and on the Area2D and the Bounds2D that
\* describe the same region
OverlapsCircleReprs ==
    /\ Fresh
    /\ shape.kind = "Rect"
    /\ \E c \in ProbeCircles :
          Query(c, [op |-> "overlaps_circle_reprs",
                    rect |-> Returned(Rect_overlaps_circle(shape, c)),
                    area |-> Returned(Area2D_overlaps_circle(SameArea(shape), c)),
                    bounds |-> Bounds2D_overlaps_circle(SameBounds(shape), c)])

\* a.intersects(&b), what the parametric tests alone give, and b.intersects(&a)
Intersects ==
    /\ Fresh
    /\ shape.kind = "Line2D"
    /\ \E o \in Line2Ds :
          Query(o, [op |-> "intersects",
                    val |-> Line2D_intersects(shape, o),
                    parametric |-> Line2D_intersects_parametric(shape, o),
                    rev |-> Line2D_intersects(o, shape)])

(* Indexed access to the components of a vector *)

IsVector(s) == s.kind \in {"Vector2", "Vector3", "Vector4"}

\* usize indices, in and out of range
Indices == 0..(MaxCoord + 4)

index(self, i) ==
    CASE self.kind = "Vector2" -> Vector2_index(self.v, i)
      [] self.kind = "Vector3" -> Vector3_index(self.v, i)
      [] self.kind = "Vector4" -> Vector4_index(self.v, i)

index_mut(self, i, value) ==
    CASE self.kind = "Vector2" -> Vector2_index_mut(self.v, i, value)
      [] self.kind = "Vector3" -> Vector3_index_mut(self.v, i, value)
      [] self.kind = "Vector4" -> Vector4_index_mut(self.v, i, value)

\* vector[i]
Index ==
    /\ Fresh
    /\ IsVector(shape)
    /\ \E i \in Indices :
          Query([index |-> i], [op |-> "index", val |-> index(shape, i)])

\* vector[i] = value: the vector is left alone when the access panics
IndexMut ==
    /\ Fresh
    /\ IsVector(shape)
    /\ \E i \in Indices, value \in {Unit + 1} :
          LET written == index_mut(shape, i, value)
          IN  /\ shape' = IF written = Panic THEN shape ELSE [shape EXCEPT !.v = written]
              /\ arg' = [index |-> i, value |-> value]
              /\ ret' = [op |-> "index_mut", val |-> IF written = Panic THEN Panic ELSE Ref(value)]
              /\ UNCHANGED <<orig, hist>>

NextQuery ==
    \/ Contains
    \/ ContainsCenter
    \/ ContainsReprs
    \/ Overlaps
    \/ CrossOverlaps
    \/ OverlapsCircle
    \/ Intersects
    \/ OverlapsCircleReprs
    \/ Index
    \/ IndexMut
    \/ BallContains
    \/ BallOverlaps

SpecQuery == Init /\ [][NextQuery]_vars

---------------------------------------------------------------------------
(* Resizing (&mut self methods of the Area and Bounds types): the value is *)
(* replaced by the resized one, the call is recorded in hist and its       *)
(* argument in arg.  One call per constructed value.                       *)

IsArea(s) == s.kind \in {"Area2D", "Area3D", "Area4D"}
IsBounds(s) == s.kind \in {"Bounds2D", "Bounds3D", "Bounds4D"}

\* target sizes: half steps, negative and zero included
TargetSizes == {k * Two : k \in (0 - 1)..(MaxCoord + 1)}

set_width(self, v) ==
    CASE self.kind = "Area2D" -> Area2D_set_width(self, v)
      [] self.kind = "Area3D" -> Area3D_set_width(self, v)
      [] self.kind = "Area4D" -> Area4D_set_width(self, v)
      [] self.kind = "Bounds2D" -> Bounds2D_set_width(self, v)
      [] self.kind = "Bounds3D" -> Bounds3D_set_width(self, v)
      [] self.kind = "Bounds4D" -> Bounds4D_set_width(self, v)

set_height(self, v) ==
    CASE self.kind = "Area2D" -> Area2D_set_height(self, v)
      [] self.kind = "Area3D" -> Area3D_set_height(self, v)
      [] self.kind = "Area4D" -> Area4D_set_height(self, v)
      [] self.kind = "Bounds2D" -> Bounds2D_set_height(self, v)
      [] self.kind = "Bounds3D" -> Bounds3D_set_height(self, v)
      [] self.kind = "Bounds4D" -> Bounds4D_set_height(self, v)

set_depth(self, v) ==
    CASE self.kind = "Area3D" -> Area3D_set_depth(self, v)
      [] self.kind = "Area4D" -> Area4D_set_depth(self, v)
      [] self.kind = "Bounds3D" -> Bounds3D_set_depth(self, v)
      [] self.kind = "Bounds4D" -> Bounds4D_set_depth(self, v)

set_hyper_depth(self, v) ==
    CASE self.kind = "Area4D" -> Area4D_set_hyper_depth(self, v)
      [] self.kind = "Bounds4D" -> Bounds4D_set_hyper_depth(self, v)

\* size is a vector of the dimension of self
set_size(self, size) ==
    CASE self.kind = "Rect" -> Rect_set_size(self, size)
      [] self.kind = "Cube" -> Cube_set_size(self, size)
      [] self.kind = "Area2D" -> Area2D_set_size(self, size)
      [] self.kind = "Area3D" -> Area3D_set_size(self, size)
      [] self.kind = "Area4D" -> Area4D_set_size(self, size)
      [] self.kind = "Bounds2D" -> Bounds2D_set_size(self, size.x, size.y)
      [] self.kind = "Bounds3D" ->
            Bounds3D_set_size(self, size.x, size.y, size.z)
      [] self.kind = "Bounds4D" ->
            Bounds4D_set_size(self, size.x, size.y, size.z, size.w)

\* target sizes of set_size: x and z take one value, y and w another, in 4D
\* the next one
SizesFor(s) ==
    CASE IsBox2D(s) -> {Vector2_new(a, b) : a \in TargetSizes, b \in TargetSizes}
      [] IsBox3D(s) -> {Vector3_new(a, b, a) : a \in TargetSizes, b \in TargetSizes}
      [] IsBox4D(s) -> {Vector4_new(a, a + Two, a, a + Two) : a \in TargetSizes}

Mutate(name, a, to) ==
    /\ hist = <<>>
    /\ shape' = to
    /\ hist' = <<name>>
    /\ arg' = a
    /\ UNCHANGED <<orig, ret>>

set_center(self, center) ==
    CASE self.kind = "Rect" -> Rect_set_center(self, center)
      [] self.kind = "Cube" -> Cube_set_center(self, center)
      [] self.kind = "Area2D" -> Area2D_set_center(self, center)
      [] self.kind = "Area3D" -> Area3D_set_center(self, center)
      [] self.kind = "Area4D" -> Area4D_set_center(self, center)

\* the getters
get_width(self) ==
    CASE self.kind = "Area2D" -> Area2D_get_width(self)
      [] self.kind = "Area3D" -> Area3D_get_width(self)
      [] self.kind = "Area4D" -> Area4D_get_width(self)
      [] IsBounds(self) -> Bounds_get_axis(self, "x")

get_axis(self, axis) ==
    IF IsArea(self) THEN Area_get_axis(self, axis) ELSE Bounds_get_axis(self, axis)

get_size(self) ==
    CASE self.kind = "Rect" -> Rect_get_size(self)
      [] self.kind = "Cube" -> Cube_get_size(self)
      [] self.kind = "Area2D" -> Area2D_get_size(self)
      [] self.kind = "Area3D" -> Area3D_get_size(self)
      [] self.kind = "Area4D" -> Area4D_get_size(self)
      [] self.kind = "Bounds2D" -> Bounds2D_get_size(self)
      [] self.kind = "Bounds3D" -> Bounds3D_get_size(self)
      [] self.kind = "Bounds4D" -> Bounds4D_get_size(self)

SetWidth ==
    /\ hist = <<>>
    /\ IsArea(shape) \/ IsBounds(shape)
    /\ \E v \in TargetSizes : Mutate("set_width", v, set_width(shape, v))

SetHeight ==
    /\ hist = <<>>
    /\ IsArea(shape) \/ IsBounds(shape)
    /\ \E v \in TargetSizes : Mutate("set_height", v, set_height(shape, v))

SetDepth ==
    /\ hist = <<>>
    /\ shape.kind \in {"Area3D", "Area4D", "Bounds3D", "Bounds4D"}
    /\ \E v \in TargetSizes : Mutate("set_depth", v, set_depth(shape, v))

SetHyperDepth ==
    /\ hist = <<>>
    /\ shape.kind \in {"Area4D", "Bounds4D"}
    /\ \E v \in TargetSizes :
          Mutate("set_hyper_depth", v, set_hyper_depth(shape, v))

SetSize ==
    /\ hist = <<>>
    /\ IsBox(shape)
    /\ \E v \in SizesFor(shape) : Mutate("set_size", v, set_size(shape, v))

\* box.set_center(center), for the boxes that do not store the center
SetCenter ==
    /\ hist = <<>>
    /\ IsBox(shape) /\ ~IsBounds(shape)
    /\ \E v \in SizesFor(shape) : Mutate("set_center", v, set_center(shape, v))

(* The setters of the lines *)

IsLine(s) == s.kind \in {"Line2D", "Line3D", "Line4D"}

\* the vector of the dimension of s with a on x and z and b on y and w
VectorFor(s, a, b) ==
    CASE s.kind = "Line2D" -> Vector2_new(a, b)
      [] s.kind = "Line3D" -> Vector3_new(a, b, a)
      [] s.kind = "Line4D" -> Vector4_new(a, b, a, b)

\* directions (not all of length one) and deltas a line is set to
Directions(s) ==
    {VectorFor(s, Unit, 0), VectorFor(s, 0 - Unit, Unit), VectorFor(s, 0, 0)}
Deltas(s) ==
    {VectorFor(s, a, b) : a \in {0 - Two, 0, Unit}, b \in {0 - Two, 0, Unit}}

Line_dispatch(self, l2, l3, l4) ==
    CASE self.kind = "Line2D" -> l2
      [] self.kind = "Line3D" -> l3
      [] self.kind = "Line4D" -> l4

SetLength ==
    /\ hist = <<>>
    /\ IsLine(shape)
    /\ \E v \in TargetSizes :
          Mutate("set_length", v,
                 Line_dispatch(shape, Line2D_set_length(shape, v),
                               Line3D_set_length(shape, v),
                               Line4D_set_length(shape, v)))

SetSqrLength ==
    /\ hist = <<>>
    /\ IsLine(shape)
    /\ \E v \in TargetSizes :
          Mutate("set_sqr_length", v,
                 Line_dispatch(shape, Line2D_set_sqr_length(shape, v),
                               Line3D_set_sqr_length(shape, v),
                               Line4D_set_sqr_length(shape, v)))

SetDirection ==
    /\ hist = <<>>
    /\ IsLine(shape)
    /\ \E v \in Directions(shape) :
          Mutate("set_direction", v,
                 Line_dispatch(shape, Line2D_set_direction(shape, v),
                               Line3D_set_direction(shape, v),
                               Line4D_set_direction(shape, v)))

SetDelta ==
    /\ hist = <<>>
    /\ IsLine(shape)
    /\ \E v \in Deltas(shape) :
          Mutate("set_delta", v,
                 Line_dispatch(shape, Line2D_set_delta(shape, v),
                               Line3D_set_delta(shape, v),
                               Line4D_set_delta(shape, v)))

(* Compound assignment on the vectors *)

\* right-hand sides of the dimension of s; divisors are never zero
RhsVectors(s, S) ==
    CASE s.kind = "Vector2" -> {Vector2_new(a, b) : a \in S, b \in S}
      [] s.kind = "Vector3" -> Vec3s(S)
      [] s.kind = "Vector4" -> Vec4s(S)

Divisors == OtherPos \ {0}

Assign(name, rhs, scalar, to) ==
    Mutate(name, [rhs |-> rhs, scalar |-> scalar], [shape EXCEPT !.v = to])

add_assign(self, rhs) ==
    CASE self.kind = "Vector2" -> Vector2_add_assign(self.v, rhs)
      [] self.kind = "Vector3" -> Vector3_add_assign(self.v, rhs)
      [] self.kind = "Vector4" -> Vector4_add_assign(self.v, rhs)

sub_assign(self, rhs) ==
    CASE self.kind = "Vector2" -> Vector2_sub_assign(self.v, rhs)
      [] self.kind = "Vector3" -> Vector3_sub_assign(self.v, rhs)
      [] self.kind = "Vector4" -> Vector4_sub_assign(self.v, rhs)

\* v += rhs
AddAssign ==
    /\ hist = <<>>
    /\ IsVector(shape)
    /\ \E rhs \in RhsVectors(shape, OtherPos) :
          Assign("add_assign", rhs, FALSE, add_assign(shape, rhs))

\* v -= rhs
SubAssign ==
    /\ hist = <<>>
    /\ IsVector(shape)
    /\ \E rhs \in RhsVectors(shape, OtherPos) :
          Assign("sub_assign", rhs, FALSE, sub_assign(shape, rhs))

\* v *= rhs, rhs a vector or a scalar
MulAssign ==
    /\ hist = <<>>
    /\ IsVector(shape)
    /\ \/ \E rhs \in RhsVectors(shape, OtherPos) :
             Assign("mul_assign", rhs, FALSE, Vector_mul_assign(shape.v, rhs))
       \/ \E rhs \in OtherPos :
             Assign("mul_assign", rhs, TRUE, Vector_mul_assign_scalar(shape.v, rhs))

\* v /= rhs, rhs a vector or a scalar
DivAssign ==
    /\ hist = <<>>
    /\ IsVector(shape)
    /\ \/ \E rhs \in RhsVectors(shape, Divisors) :
             Assign("div_assign", rhs, FALSE, Vector_div_assign(shape.v, rhs))
       \/ \E rhs \in Divisors :
             Assign("div_assign", rhs, TRUE, Vector_div_assign_scalar(shape.v, rhs))

\* the arguments of set: values no constructed vector holds, and zero
SetValues == {0, Unit + 1}

set(self, a) ==
    CASE self.kind = "Vector2" -> Vector2_set(self.v, a.x, a.y)
      [] self.kind = "Vector3" -> Vector3_set(self.v, a.x, a.y, a.z)
      [] self.kind = "Vector4" -> Vector4_set(self.v, a.x, a.y, a.z, a.w)

\* v.set(..), once or twice in a row
VectorSet ==
    /\ IsVector(shape)
    /\ hist \in {<<>>, <<"set">>}
    /\ \E a \in RhsVectors(shape, SetValues) :
          /\ shape' = [shape EXCEPT !.v = set(shape, a)]
          /\ hist' = Append(hist, "set")
          /\ arg' = a
          /\ UNCHANGED <<orig, ret>>

NextSet ==
    \/ SetWidth
    \/ SetHeight
    \/ SetDepth
    \/ SetHyperDepth
    \/ SetSize
    \/ SetCenter
    \/ SetLength
    \/ SetSqrLength
    \/ SetDirection
    \/ SetDelta
    \/ AddAssign
    \/ SubAssign
    \/ MulAssign
    \/ DivAssign
    \/ VectorSet

SpecSet == Init /\ [][NextSet]_vars

---------------------------------------------------------------------------
(* Easing and interpolation: interpolate and the curves of Ease are pure    *)
(* functions of their arguments; a call records its arguments and what it  *)
(* returned.                                                               *)

InoutCurves ==
    {"quad_inout", "cubic_inout", "quart_inout", "quint_inout", "sext_inout",
     "sept_inout", "oct_inout", "expo_inout", "circ_inout", "back_inout"}

Curves ==
    {"linear", "sine_in", "sine_out", "sine_inout", "quad_in", "quad_out",
     "cubic_in", "cubic_out", "quart_in", "quart_out", "quint_in", "quint_out",
     "sext_in", "sext_out", "sept_in", "sept_out", "oct_in", "oct_out",
     "expo_in", "expo_out", "circ_in", "circ_out", "back_in", "back_out", "elastic_in"}
        \cup InoutCurves

\* the curve called by name; for the *_inout curves lower says which of the
\* two branch formulas is evaluated
EaseAt(curve, t, lower) ==
    CASE curve = "linear" -> linear(t)
      [] curve = "sine_in" -> sine_in(t)
      [] curve = "sine_out" -> sine_out(t)
      [] curve = "sine_inout" -> sine_inout(t)
      [] curve = "quad_in" -> quad_in(t)
      [] curve = "quad_out" -> quad_out(t)
      [] curve = "cubic_in" -> cubic_in(t)
      [] curve = "cubic_out" -> cubic_out(t)
      [] curve = "quart_in" -> quart_in(t)
      [] curve = "quart_out" -> quart_out(t)
      [] curve = "quint_in" -> quint_in(t)
      [] curve = "quint_out" -> quint_out(t)
      [] curve = "sext_in" -> sext_in(t)
      [] curve = "sext_out" -> sext_out(t)
      [] curve = "sept_in" -> sept_in(t)
      [] curve = "sept_out" -> sept_out(t)
      [] curve = "oct_in" -> oct_in(t)
      [] curve = "oct_out" -> oct_out(t)
      [] curve = "expo_in" -> expo_in(t)
      [] curve = "expo_out" -> expo_out(t)
      [] curve = "circ_in" -> circ_in(t)
      [] curve = "circ_out" -> circ_out(t)
      [] curve = "back_in" -> back_in(t)
      [] curve = "back_out" -> back_out(t)
      [] curve = "elastic_in" -> elastic_in(t)
      [] curve = "quad_inout" -> quad_inout_at(t, lower)
      [] curve = "cubic_inout" -> cubic_inout_at(t, lower)
      [] curve = "quart_inout" -> quart_inout_at(t, lower)
      [] curve = "quint_inout" -> quint_inout_at(t, lower)
      [] curve = "sext_inout" -> sext_inout_at(t, lower)
      [] curve = "sept_inout" -> sept_inout_at(t, lower)
      [] curve = "oct_inout" -> oct_inout_at(t, lower)
      [] curve = "expo_inout" -> expo_inout_at(t, lower)
      [] curve = "circ_inout" -> circ_inout_at(t, lower)
      [] curve = "back_inout" -> back_inout_at(t, lower)

\* Ease.curve(t): the branch is the one the test on t selects
Ease(curve, t) == EaseAt(curve, t, Lower(t))

\* the arguments: the end points and the midpoint for every curve, the
\* quarters too where the curve stays a fraction there
Irrational ==
    {"sine_in", "sine_out", "sine_inout", "expo_in", "expo_out", "expo_inout",
     "circ_in", "circ_out", "circ_inout", "elastic_in"}

Halves == {"sine_inout", "expo_in", "expo_out", "expo_inout", "circ_inout", "elastic_in"}

Times01(curve) ==
    {FZero, FOne}
        \cup (IF curve \in Halves \/ curve \notin Irrational THEN {Frac(1, 2)} ELSE {})
        \cup (IF curve \notin Irrational THEN {Frac(1, 4), Frac(3, 4)} ELSE {})

EaseValues == {Frac(k, 2) : k \in (0 - 2)..(2 * MaxCoord + 2)}

InitEase ==
    /\ shape = [kind |-> "Ease"]
    /\ orig = shape
    /\ hist = <<>>
    /\ arg = [op |-> "none"]
    /\ ret = [op |-> "none"]

\* Ease.curve(t)
EaseCall ==
    /\ Fresh
    /\ shape.kind = "Ease"
    /\ \E curve \in Curves :
          \E t \in Times01(curve) :
              Query([curve |-> curve, t |-> t], [op |-> "ease", val |-> Ease(curve, t)])

\* the two branch formulas of an *_inout curve at the argument where the
\* test t < 1 / 2 changes
EaseBranches ==
    /\ Fresh
    /\ shape.kind = "Ease"
    /\ \E curve \in InoutCurves :
          LET t == FDiv(FOne, FTwo)
          IN  Query([curve |-> curve, t |-> t],
                    [op |-> "branches",
                     lower |-> EaseAt(curve, t, TRUE),
                     upper |-> EaseAt(curve, t, FALSE)])

\* interpolate(a, b, t)
Interpolate ==
    /\ Fresh
    /\ shape.kind = "Ease"
    /\ \E a \in EaseValues, b \in EaseValues, t \in EaseValues :
          Query([a |-> a, b |-> b, t |-> t],
                [op |-> "interpolate", val |-> interpolate(a, b, t)])

NextEase ==
    \/ EaseCall
    \/ EaseBranches
    \/ Interpolate

SpecEase == InitEase /\ [][NextEase]_vars

---------------------------------------------------------------------------
(* The derived quantities of the balls: a getter records what it returns,  *)
(* a setter replaces the radius and records its argument, which is a fresh *)
(* value or the value the getter has just returned.                        *)

\* radii that are not negative: zero and the powers of two around one
BallRadii == {MZero} \cup {Mono(1, Frac(k, 1), FZero, FZero) : k \in (0 - 1)..MaxCoord}

QuantityBalls ==
    {Circle_new(0, 0, r) : r \in BallRadii}
        \cup {Sphere_new(0, 0, 0, r) : r \in BallRadii}
        \cup {HyperSphere_new(0, 0, 0, 0, r) : r \in BallRadii}

Quantities(s) ==
    CASE s.kind = "Circle" -> {"diameter", "circumference", "area"}
      [] s.kind = "Sphere" -> {"diameter", "circumference", "area", "volume"}
      [] s.kind = "HyperSphere" -> {"diameter", "surface_volume", "volume"}

\* values a quantity is set to, none of them negative
QuantityValues ==
    {MZero, MOne, MPi, MMul(MFour, MPi), MMul(MPi, MPi)}
        \cup {Mono(1, Frac(k, 1), FZero, FZero) : k \in 1..(MaxCoord + 1)}

get_quantity(self, q) ==
    CASE q = "diameter" -> Ball_get_diameter(self)
      [] q = "circumference" -> Ball_get_circumference(self)
      [] q = "area" /\ self.kind = "Circle" -> Circle_get_area(self)
      [] q = "area" /\ self.kind = "Sphere" -> Sphere_get_area(self)
      [] q = "volume" /\ self.kind = "Sphere" -> Sphere_get_volume(self)
      [] q = "surface_volume" -> HyperSphere_get_surface_volume(self)
      [] q = "volume" /\ self.kind = "HyperSphere" -> HyperSphere_get_volume(self)

set_quantity(self, q, value) ==
    CASE q = "diameter" -> Ball_set_diameter(self, value)
      [] q = "circumference" -> Ball_set_circumference(self, value)
      [] q = "area" /\ self.kind = "Circle" -> Circle_set_area(self, value)
      [] q = "area" /\ self.kind = "Sphere" -> Sphere_set_area(self, value)
      [] q = "volume" /\ self.kind = "Sphere" -> Sphere_set_volume(self, value)
      [] q = "surface_volume" -> HyperSphere_set_surface_volume(self, value)
      [] q = "volume" /\ self.kind = "HyperSphere" -> HyperSphere_set_volume(self, value)

InitBall ==
    /\ shape \in QuantityBalls
    /\ orig = shape
    /\ hist = <<>>
    /\ arg = [op |-> "none"]
    /\ ret = [op |-> "none"]

\* ball.get_q()
BallGet ==
    /\ Len(hist) < MaxSteps
    /\ \E q \in Quantities(shape) :
          /\ ret' = [op |-> "get", q |-> q, val |-> get_quantity(shape, q)]
          /\ hist' = Append(hist, "get")
          /\ UNCHANGED <<shape, orig, arg>>

\* ball.set_q(value)
BallSet ==
    /\ Len(hist) < MaxSteps
    /\ \E q \in Quantities(shape) :
          \E value \in QuantityValues \cup (IF ret.op = "get" /\ ret.q = q THEN {ret.val} ELSE {}) :
              /\ shape' = set_quantity(shape, q, value)
              /\ arg' = [q |-> q, value |-> value]
              /\ hist' = Append(hist, "set")
              /\ UNCHANGED <<orig, ret>>

NextBall ==
    \/ BallGet
    \/ BallSet

SpecBall == InitBall /\ [][NextBall]_vars

---------------------------------------------------------------------------
(* Claims about the conversions (specification Spec) *)

AreaBoundsRoundTrips ==
    {<<"Bounds2D::from(Area2D)", "Area2D::from(Bounds2D)">>,
     <<"Bounds3D::from(Area3D)", "Area3D::from(Bounds3D)">>,
     <<"Bounds4D::from(Area4D)", "Area4D::from(Bounds4D)">>,
     <<"Area2D::from(Bounds2D)", "Bounds2D::from(Area2D)">>,
     <<"Area3D::from(Bounds3D)", "Bounds3D::from(Area3D)">>,
     <<"Area4D::from(Bounds4D)", "Bounds4D::from(Area4D)">>}

\* C1: converting an Area to a Bounds of the same dimension and back gives
\* the original lower and upper corner on every axis, and converting a
\* Bounds to an Area and back gives the original center and extent on every
\* axis (2D, 3D and 4D).
C1_AreaBoundsRoundTrip ==
    hist \in AreaBoundsRoundTrips => shape = orig

RectRoundTrips ==
    {<<"Area2D::from(Rect)", "Rect::from(Area2D)">>,
     <<"Bounds2D::from(Rect)", "Rect::from(Bounds2D)">>}

\* C2: Rect -> Area2D -> Rect and Rect -> Bounds2D -> Rect both give back
\* the original x, y, width and height.
C2_RectRoundTrip ==
    hist \in RectRoundTrips => shape = orig

\* a Rect with different, non-zero width and height (one of them negative)
\* has gone to Bounds2D and back
C2_Witness ==
    /\ hist = <<"Bounds2D::from(Rect)", "Rect::from(Bounds2D)">>
    /\ orig.width > 0
    /\ orig.height < 0
    /\ orig.x # 0

BoundsToArea ==
    {<<"Area2D::from(Bounds2D)">>, <<"Area3D::from(Bounds3D)">>,
     <<"Area4D::from(Bounds4D)">>}

\* C3: converting a Bounds to the Area of the same dimension gives, on every
\* axis k of that dimension, lower_left.k = center.k - extents.k and
\* upper_right.k = center.k + extents.k.
C3_BoundsToAreaCorners ==
    hist \in BoundsToArea =>
        \A k \in DOMAIN orig.center :
            /\ shape.lower_left[k] = orig.center[k] - orig.extents[k]
            /\ shape.upper_right[k] = orig.center[k] + orig.extents[k]

---------------------------------------------------------------------------
(* Claims about the queries (specification SpecQuery) *)

\* C4: for two regions X and Y, each given as a Rect (Cube), an Area and a
\* Bounds with the same corners, every overlap call on the pair, with any
\* representation as receiver and any as argument, returns the same boolean
\* (2D and 3D).
C4_CrossOverlapsAgree ==
    ret.op = "cross_overlaps" =>
        \A f, g \in DOMAIN ret.calls : ret.calls[f] = ret.calls[g]

\* two cubes that overlap, the receiver with unequal sizes on its axes, the
\* argument at a half step
C4_Witness ==
    /\ ret.op = "cross_overlaps"
    /\ shape.kind = "Cube"
    /\ shape.width # shape.height
    /\ shape.depth > 0
    /\ arg.x = Two
    /\ ret.calls.cube_overlaps_bounds
    /\ ret.calls.bounds_overlaps_area

\* C5: overlaps is symmetric for operands of the same type, for all eleven
\* types and any field values (negative sizes and radii included):
\* a.overlaps(b) = b.overlaps(a).
C5_OverlapsSymmetric ==
    ret.op = "overlaps" => ret.val = ret.rev

\* two circles with different centers and different radii, one of them
\* negative, that overlap
C5_Witness ==
    /\ ret.op = "overlaps"
    /\ shape.kind = "Circle"
    /\ shape.radius < 0
    /\ arg.radius # shape.radius
    /\ arg.center # shape.center
    /\ ret.val

\* the least and the greatest coordinate of a box on each of its axes
MinCorner(b) ==
    CASE b.kind = "Rect" -> [x |-> b.x, y |-> b.y]
      [] b.kind = "Cube" -> [x |-> b.x, y |-> b.y, z |-> b.z]
      [] b.kind \in {"Area2D", "Area3D", "Area4D"} -> b.lower_left
      [] b.kind \in {"Bounds2D", "Bounds3D", "Bounds4D"} ->
            [k \in DOMAIN b.center |-> b.center[k] - b.extents[k]]

MaxCorner(b) ==
    CASE b.kind = "Rect" -> [x |-> b.x + b.width, y |-> b.y + b.height]
      [] b.kind = "Cube" ->
            [x |-> b.x + b.width, y |-> b.y + b.height, z |-> b.z + b.depth]
      [] b.kind \in {"Area2D", "Area3D", "Area4D"} -> b.upper_right
      [] b.kind \in {"Bounds2D", "Bounds3D", "Bounds4D"} ->
            [k \in DOMAIN b.center |-> b.center[k] + b.extents[k]]

Axes(b) == DOMAIN MinCorner(b)

NonNegative(b) == \A k \in Axes(b) : MinCorner(b)[k] <= MaxCorner(b)[k]
Positive(b) == \A k \in Axes(b) : MinCorner(b)[k] < MaxCorner(b)[k]

\* on some axis one box ends where, or before, the other begins
Apart(a, b) ==
    \E k \in Axes(a) :
        \/ MaxCorner(a)[k] <= MinCorner(b)[k]
        \/ MaxCorner(b)[k] <= MinCorner(a)[k]

\* some point lies strictly between min and max of both boxes on every axis
ShareInterior(a, b) ==
    \A k \in Axes(a) :
        \E v \in (0 - 4 * MaxCoord * Unit)..(4 * MaxCoord * Unit) :
            /\ Two * MinCorner(a)[k] < v /\ v < Two * MaxCorner(a)[k]
            /\ Two * MinCorner(b)[k] < v /\ v < Two * MaxCorner(b)[k]

\* C6: for two boxes of the same type with non-negative size on every axis,
\* overlaps returns false when the boxes are disjoint or only touch (on some
\* axis max(a) <= min(b) or max(b) <= min(a)) and true when some point lies
\* strictly inside both boxes on every axis.
C6_OverlapsInterior ==
    (ret.op = "overlaps" /\ IsBox(shape)
        /\ NonNegative(shape) /\ NonNegative(arg)) =>
        /\ Apart(shape, arg) => ~ret.val
        /\ ShareInterior(shape, arg) => ret.val

\* two cubes of positive size that share their interior on x and y and only
\* touch on z
C6_WitnessTouch ==
    /\ ret.op = "overlaps"
    /\ shape.kind = "Cube"
    /\ Positive(shape)
    /\ Positive(arg)
    /\ MaxCorner(shape).z = MinCorner(arg).z
    /\ \A k \in {"x", "y"} :
          /\ MinCorner(shape)[k] < MaxCorner(arg)[k]
          /\ MinCorner(arg)[k] < MaxCorner(shape)[k]
    /\ ~ret.val

\* C7: every box whose size or extent is non-negative on every axis, zero
\* included, contains its own center: box.contains(center of box) is true.
C7_ContainsOwnCenter ==
    (ret.op = "contains_center" /\ NonNegative(shape)) => ret.val

\* the same for the boxes of positive size only
C7_PositiveContainsOwnCenter ==
    (ret.op = "contains_center" /\ Positive(shape)) => ret.val

StrictlyInside(b, p) ==
    \A k \in Axes(b) : MinCorner(b)[k] < p[k] /\ p[k] < MaxCorner(b)[k]

Outside(b, p) ==
    \E k \in Axes(b) : p[k] < MinCorner(b)[k] \/ p[k] > MaxCorner(b)[k]

OnBoundary(b, p) == ~StrictlyInside(b, p) /\ ~Outside(b, p)

\* C8: for one region of positive size given as a Rect or Cube, an Area and
\* a Bounds, a point on the region's min or max on some axis and within the
\* region on the others is contained by the Rect or Cube and by the Area but
\* not by the Bounds; a point strictly inside is contained by all three and a
\* point outside by none.
C8_BoundaryInclusive ==
    (ret.op = "contains_reprs" /\ Positive(shape)) =>
        /\ StrictlyInside(shape, arg) => (ret.rect /\ ret.area /\ ret.bounds)
        /\ Outside(shape, arg) => (~ret.rect /\ ~ret.area /\ ~ret.bounds)
        /\ OnBoundary(shape, arg) => (ret.rect /\ ret.area /\ ~ret.bounds)

\* a point on the far face of a cube of positive size
C8_Witness ==
    /\ ret.op = "contains_reprs"
    /\ shape.kind = "Cube"
    /\ Positive(shape)
    /\ arg.z = MaxCorner(shape).z
    /\ arg.x > MinCorner(shape).x
    /\ ret.rect
    /\ ret.area
    /\ ~ret.bounds

\* C9: contains(point) of every box type returns false whenever the point
\* lies outside [min, max] on any single axis of the shape, the z axis of
\* the 3D boxes and the w axis of the 4D boxes included.
C9_ContainsEveryAxis ==
    (ret.op = "contains" /\ Outside(shape, arg)) => ~ret.val

\* the same for every box type but Area4D
C9_ContainsEveryAxisButArea4D ==
    (ret.op = "contains" /\ shape.kind # "Area4D" /\ Outside(shape, arg)) =>
        ~ret.val

Clamp(v, lo, hi) == IF v < lo THEN lo ELSE IF v > hi THEN hi ELSE v

\* squared distance from the center of c to the nearest point of r
SqrDistanceToRect(r, c) ==
    LET nx == Clamp(c.center.x, r.x, r.x + r.width)
        ny == Clamp(c.center.y, r.y, r.y + r.height)
    IN  (nx - c.center.x) * (nx - c.center.x)
            + (ny - c.center.y) * (ny - c.center.y)

\* C10: for a Rect of non-negative width and height and any Circle,
\* overlaps_circle is true iff the squared distance from the circle's center
\* to the nearest point of the rectangle is <= radius^2, that is iff some
\* point contained by the rectangle is contained by the circle; a circle
\* that only touches the rectangle overlaps it.
C10_OverlapsCircle ==
    (ret.op = "overlaps_circle" /\ shape.width >= 0 /\ shape.height >= 0) =>
        /\ ret.val = (SqrDistanceToRect(shape, arg) <= arg.radius * arg.radius)
        /\ ret.val = (\E a \in PointVals, b \in PointVals :
                         /\ Rect_contains(shape, Vector2_new(a, b))
                         /\ Circle_contains(arg, Vector2_new(a, b)))

\* a circle centered outside the rectangle, diagonally off a corner, that
\* only touches it
C10_WitnessTouch ==
    /\ ret.op = "overlaps_circle"
    /\ shape.width > 0
    /\ shape.height >= 0
    /\ arg.center.x > shape.x + shape.width
    /\ arg.radius # 0
    /\ SqrDistanceToRect(shape, arg) = arg.radius * arg.radius
    /\ ret.val

SqrDistance(p, q) ==
    LET Sq(k) == (p[k] - q[k]) * (p[k] - q[k])
    IN  Sq("x") + Sq("y") + (IF "z" \in DOMAIN p THEN Sq("z") ELSE 0)
            + (IF "w" \in DOMAIN p THEN Sq("w") ELSE 0)

\* C11: for Circle, Sphere and HyperSphere with non-negative radii,
\* contains(p) is true iff the squared distance from the center to p is
\* <= radius^2 (boundary points are contained), and overlaps(other) is true
\* iff the squared distance between the centers is < (r1 + r2)^2, so balls
\* whose centers are exactly r1 + r2 apart do not overlap.
C11_BallPredicates ==
    /\ (ret.op = "ball_contains" /\ shape.radius >= 0) =>
          ret.val = (SqrDistance(shape.center, arg)
                        <= shape.radius * shape.radius)
    /\ (ret.op = "ball_overlaps" /\ shape.radius >= 0 /\ arg.radius >= 0) =>
          ret.val = (SqrDistance(shape.center, arg.center)
                        < (shape.radius + arg.radius)
                              * (shape.radius + arg.radius))

\* a point of a HyperSphere's boundary, away from its center on every axis
C11_WitnessBoundary ==
    /\ ret.op = "ball_contains"
    /\ shape.kind = "HyperSphere"
    /\ shape.radius > 0
    /\ arg.w # shape.center.w
    /\ SqrDistance(shape.center, arg) = shape.radius * shape.radius
    /\ ret.val

\* C12: the sign of a ball's radius is irrelevant to the distance
\* predicates: replacing the radius r of one ball by -r changes neither
\* contains(p) for any point p nor overlaps(other) for any other ball.
C12_RadiusSignIrrelevant ==
    /\ ret.op = "ball_contains" => ret.neg = ret.val
    /\ ret.op = "ball_overlaps" =>
          (ret.neg_self = ret.val /\ ret.neg_other = ret.val)

\* C12 (amended): replacing the radius r of a ball by -r changes contains(p)
\* for no point p, and negating the radii of both balls leaves overlaps
\* unchanged.
C12_ContainsSignIrrelevant ==
    /\ ret.op = "ball_contains" => ret.neg = ret.val
    /\ ret.op = "ball_overlaps" => ret.neg_both = ret.val

\* a Sphere of negative radius that contains a point other than its center
C12_Witness ==
    /\ ret.op = "ball_contains"
    /\ shape.kind = "Sphere"
    /\ shape.radius < 0
    /\ arg # shape.center
    /\ ret.val
    /\ ret.neg

---------------------------------------------------------------------------
(* Claims about the resizing methods (specification SpecSet) *)

Resizers == {"set_width", "set_height", "set_depth", "set_hyper_depth", "set_size"}

\* twice the midpoint of a box on axis k
TwiceCenter(b, k) == MinCorner(b)[k] + MaxCorner(b)[k]

\* C13: for Area2D/3D/4D and Bounds2D/3D/4D, with arbitrary starting values
\* and arbitrary target value, each of set_width, set_height, set_depth,
\* set_hyper_depth and set_size leaves the center of the box unchanged on
\* every axis.
C13_ResizeKeepsCenter ==
    (hist # <<>> /\ hist[1] \in Resizers /\ (IsArea(orig) \/ IsBounds(orig))) =>
        /\ \A k \in Axes(orig) : TwiceCenter(shape, k) = TwiceCenter(orig, k)
        /\ center_of(shape) = center_of(orig)

\* an Area3D whose corners set_size has moved
C13_Witness ==
    /\ hist = <<"set_size">>
    /\ shape.kind = "Area3D"
    /\ shape.lower_left.x # orig.lower_left.x
    /\ shape.upper_right.y # orig.upper_right.y
    /\ orig.lower_left.x # orig.lower_left.y

---------------------------------------------------------------------------
(* Claims about Line2D::intersects (specification SpecQuery) *)

\* the denominator f and the numerators d (of alpha) and e (of beta) of two
\* segments A and B
Den(A, B) ==
    (A.end.y - A.start.y) * (B.start.x - B.end.x)
        - (A.end.x - A.start.x) * (B.start.y - B.end.y)
NumAlpha(A, B) ==
    (B.start.y - B.end.y) * (A.start.x - B.start.x)
        - (B.start.x - B.end.x) * (A.start.y - B.start.y)
NumBeta(A, B) ==
    (A.end.x - A.start.x) * (A.start.y - B.start.y)
        - (A.end.y - A.start.y) * (A.start.x - B.start.x)

\* n / f lies in [0, 1]
InUnitInterval(n, f) == f # 0 /\ n * f >= 0 /\ n * f <= f * f

\* C14: intersects(A, B) returns a point iff f = ay*bx - ax*by is non-zero
\* and alpha = d/f and beta = e/f both lie in [0, 1] (segments that meet only
\* at an endpoint intersect); in every other case, parallel and collinear
\* segments included, it returns no intersection.
C14_IntersectsIff ==
    ret.op = "intersects" =>
        ret.val.some = (/\ Den(shape, arg) # 0
                        /\ InUnitInterval(NumAlpha(shape, arg), Den(shape, arg))
                        /\ InUnitInterval(NumBeta(shape, arg), Den(shape, arg)))

\* two segments that are not parallel and meet only at the start of the
\* second one, which is no endpoint of the first
C14_WitnessEndpoint ==
    /\ ret.op = "intersects"
    /\ Den(shape, arg) # 0
    /\ NumBeta(shape, arg) = 0
    /\ NumAlpha(shape, arg) # 0
    /\ NumAlpha(shape, arg) # Den(shape, arg)
    /\ ret.val.some

\* the quotient q equals n / f
QuotIs(q, n, f) == q.num * f = n * q.den

\* the quotient q lies between the values a and b
QuotBetween(q, a, b) ==
    LET lo == IF a <= b THEN a ELSE b
        hi == IF a <= b THEN b ELSE a
    IN  IF q.den > 0
        THEN lo * q.den <= q.num /\ q.num <= hi * q.den
        ELSE lo * q.den >= q.num /\ q.num >= hi * q.den

\* the point P, with quotients for coordinates, lies on the segment S
OnSegment(P, S) ==
    /\ (P.x.num - S.start.x * P.x.den) * P.y.den * (S.end.y - S.start.y)
          = (P.y.num - S.start.y * P.y.den) * P.x.den * (S.end.x - S.start.x)
    /\ QuotBetween(P.x, S.start.x, S.end.x)
    /\ QuotBetween(P.y, S.start.y, S.end.y)

\* C15: whenever intersects(A, B) returns a point P, P equals
\* A.start + alpha * (A.end - A.start) with alpha = d/f, and P lies on both
\* segments A and B.
C15_IntersectionPoint ==
    (ret.op = "intersects" /\ ret.val.some) =>
        LET P == ret.val.point
            f == Den(shape, arg)
            d == NumAlpha(shape, arg)
        IN  /\ QuotIs(P.x, shape.start.x * f + d * (shape.end.x - shape.start.x), f)
            /\ QuotIs(P.y, shape.start.y * f + d * (shape.end.y - shape.start.y), f)
            /\ OnSegment(P, shape)
            /\ OnSegment(P, arg)

\* the segments (0,0)-(2,2) and (0,2)-(2,0) give the point (1,1)
C15_WitnessDiagonals ==
    /\ ret.op = "intersects"
    /\ shape = Line2D_new(0, 0, 2 * Unit, 2 * Unit)
    /\ arg = Line2D_new(0, 2 * Unit, 2 * Unit, 0)
    /\ ret.val.some
    /\ QuotIs(ret.val.point.x, Unit, 1)
    /\ QuotIs(ret.val.point.y, Unit, 1)

\* C16: the bounding-interval rejection of intersects is a pure
\* optimisation: for every pair of segments it rejects, the alpha, beta and
\* parallel tests alone also return no intersection, so removing it never
\* changes the result.
C16_RejectionIsOptimisation ==
    ret.op = "intersects" => ret.val = ret.parametric

\* two segments that are not parallel, rejected by the bounding intervals
C16_WitnessRejected ==
    /\ ret.op = "intersects"
    /\ Line2D_intersects_rejects(shape, arg)
    /\ Den(shape, arg) # 0
    /\ ~ret.val.some
    /\ ~ret.parametric.some

---------------------------------------------------------------------------
(* Claims about the setters of the lines (specification SpecSet) *)

LineSetters == {"set_length", "set_sqr_length", "set_direction", "set_delta"}

\* C17: for Line2D, Line3D and Line4D, set_length, set_sqr_length,
\* set_direction and set_delta leave the start point unchanged and only
\* recompute end; after set_delta(d), end = start + d on every axis.
C17_LineSettersKeepStart ==
    (hist # <<>> /\ hist[1] \in LineSetters) =>
        /\ \A k \in DOMAIN orig.start : shape.start[k] = orig.start[k]
        /\ DOMAIN shape = DOMAIN orig
        /\ hist[1] = "set_delta" =>
              \A k \in DOMAIN orig.start : shape.end[k] = orig.start[k] + arg[k]

\* a Line4D that does not start at the origin, set to a delta that moves its
\* end on every axis
C17_Witness ==
    /\ hist = <<"set_delta">>
    /\ shape.kind = "Line4D"
    /\ \A k \in DOMAIN orig.start :
          /\ orig.start[k] # 0
          /\ shape.end[k] # orig.end[k]
          /\ arg[k] # 0

---------------------------------------------------------------------------
(* Claims about the conversions between dimensions (specification Spec) *)

Narrowings ==
    {<<"Rect::from(Area3D)">>,
     <<"Rect::from(Bounds3D)">>,
     <<"Rect::from(Area4D)">>,
     <<"Rect::from(Bounds4D)">>,
     <<"Area2D::from(Area3D)">>,
     <<"Area2D::from(Bounds3D)">>,
     <<"Area2D::from(Area4D)">>,
     <<"Area2D::from(Bounds4D)">>,
     <<"Bounds2D::from(Bounds3D)">>,
     <<"Bounds2D::from(Area3D)">>,
     <<"Bounds2D::from(Bounds4D)">>,
     <<"Bounds2D::from(Area4D)">>,
     <<"Area3D::from(Area4D)">>,
     <<"Area3D::from(Bounds4D)">>,
     <<"Bounds3D::from(Bounds4D)">>,
     <<"Bounds3D::from(Area4D)">>}

\* C18: every dimension-narrowing box conversion yields a box whose min and
\* max on each retained axis equal the min and max of the source box on that
\* axis; the values of the dropped axes have no influence on the result.
C18_NarrowingKeepsAxes ==
    hist \in Narrowings =>
        \A k \in Axes(shape) :
            /\ MinCorner(shape)[k] = MinCorner(orig)[k]
            /\ MaxCorner(shape)[k] = MaxCorner(orig)[k]

\* the same for every narrowing conversion but those from an Area to a Bounds
C18_NarrowingButAreaToBounds ==
    (hist \in Narrowings /\ ~(IsArea(orig) /\ IsBounds(shape))) =>
        \A k \in Axes(shape) :
            /\ MinCorner(shape)[k] = MinCorner(orig)[k]
            /\ MaxCorner(shape)[k] = MaxCorner(orig)[k]

Widenings ==
    {<<"Bounds3D::from(Bounds2D)">>,
     <<"Bounds3D::from(Area2D)">>,
     <<"Sphere::from(Circle)">>}

VectorWidenings ==
    {"Vector3::from(Vector2)", "Vector4::from(Vector2)", "Vector4::from(Vector3)"}

\* C19: every dimension-widening conversion sets every added axis to zero
\* (center and extent on that axis are both zero for boxes) and never copies
\* a value of one of the source's axes into an added axis.
C19_WideningPadsZero ==
    /\ hist \in Widenings =>
          \A k \in DOMAIN shape.center \ (IF IsBox(orig) THEN Axes(orig) ELSE DOMAIN orig.center) :
              /\ shape.center[k] = 0
              /\ IsBounds(shape) => shape.extents[k] = 0
    /\ (hist # <<>> /\ \A i \in DOMAIN hist : hist[i] \in VectorWidenings) =>
          \A k \in DOMAIN shape.v \ DOMAIN orig.v : shape.v[k] = 0

\* a Circle whose center is off zero on both axes has become a Sphere
C19_Witness ==
    /\ hist = <<"Sphere::from(Circle)">>
    /\ orig.center.x # 0
    /\ orig.center.y # 0
    /\ orig.radius # 0
    /\ shape.center.z = 0

---------------------------------------------------------------------------
(* Claims about the vectors (specification SpecQuery) *)

Dimension(s) == Cardinality(DOMAIN s.v)

\* C20: indexed component access, read or write, on a Vector2, Vector3 or
\* Vector4 with an index outside 0..N-1 panics: it returns no sentinel and no
\* other component, and writes nothing.
C20_IndexOutOfRangePanics ==
    (ret.op \in {"index", "index_mut"} /\ arg.index >= Dimension(orig)) =>
        /\ ret.val = Panic
        /\ shape = orig

\* a Vector3 read at index 3
C20_Witness ==
    /\ ret.op = "index"
    /\ shape.kind = "Vector3"
    /\ arg.index = Dimension(shape)
    /\ shape.v.z # 0
    /\ ret.val = Panic

---------------------------------------------------------------------------
(* Claims about vector arithmetic (specification SpecSet) *)

CompoundOps == {"add_assign", "sub_assign", "mul_assign", "div_assign"}

\* the binary result v op r
Binary(op, l, r, scalar) ==
    CASE op = "add_assign" -> Vector_add(l, r)
      [] op = "sub_assign" -> Vector_sub(l, r)
      [] op = "mul_assign" -> IF scalar THEN Vector_mul_scalar(l, r) ELSE Vector_mul(l, r)
      [] op = "div_assign" -> IF scalar THEN Vector_div_scalar(l, r) ELSE Vector_div(l, r)

AfterCompound == IsVector(shape) /\ hist # <<>> /\ hist[1] \in CompoundOps

\* C21: after v op= r (op one of +, -, *, / with a vector or a scalar on the
\* right), every component of a Vector2, Vector3 or Vector4 equals the
\* corresponding component of the binary result v op r.
C21_CompoundIsComponentwise ==
    AfterCompound => shape.v = Binary(hist[1], orig.v, arg.rhs, arg.scalar)

\* the components x and y always agree with the binary result, so a Vector2
\* is updated whole
C21_CompoundOnXY ==
    AfterCompound =>
        \A k \in {"x", "y"} :
            shape.v[k] = Binary(hist[1], orig.v, arg.rhs, arg.scalar)[k]

---------------------------------------------------------------------------
(* Claims about easing and interpolation (specification SpecEase) *)

\* C22: every *_inout curve is continuous at t = 1 / 2: its lower branch
\* formula and its upper branch formula take the same value there.
C22_InoutContinuous ==
    ret.op = "branches" => ret.lower = ret.upper

\* the curves whose two branches do meet at 1 / 2
C22_ContinuousCurves ==
    ret.op = "branches" =>
        (ret.lower = ret.upper <=> arg.curve \in {"quad_inout", "circ_inout", "back_inout"})

\* C23: every easing curve returns 0 at 0 and 1 at 1; linear(t) = t and
\* quad_in(1 / 2) = 1 / 4.
C23_EndPoints ==
    ret.op = "ease" =>
        /\ arg.t = FZero => ret.val = FZero
        /\ arg.t = FOne => ret.val = FOne
        /\ arg.curve = "linear" => ret.val = arg.t
        /\ (arg.curve = "quad_in" /\ arg.t = Frac(1, 2)) => ret.val = Frac(1, 4)

\* the end points of every curve but back_inout at 1
C23_EndPointsButBackInout ==
    (ret.op = "ease" /\ ~(arg.curve = "back_inout" /\ arg.t = FOne)) =>
        /\ arg.t = FZero => ret.val = FZero
        /\ arg.t = FOne => ret.val = FOne

\* C24: interpolate(a, b, t) is a + (b - a) * t, the mix a * (1 - t) + b * t:
\* a at t = 0, b at t = 1, and t itself for a = 0, b = 1.
C24_Interpolate ==
    ret.op = "interpolate" =>
        /\ ret.val = FAdd(FMul(arg.a, FSub(FOne, arg.t)), FMul(arg.b, arg.t))
        /\ arg.t = FZero => ret.val = arg.a
        /\ arg.t = FOne => ret.val = arg.b
        /\ (arg.a = FZero /\ arg.b = FOne) => ret.val = arg.t

\* half of the way between two different values
C24_Witness ==
    /\ ret.op = "interpolate"
    /\ arg.a = Frac(1, 2)
    /\ arg.b = Frac(3, 2)
    /\ arg.t = Frac(1, 2)
    /\ ret.val = FOne

---------------------------------------------------------------------------
(* Claims about the setters of the vectors (specification SpecSet) *)

\* C25: after v.set(..) on a Vector2, Vector3 or Vector4 every component of
\* v equals the corresponding argument, whatever v held before, also when
\* the vector had been set already.
C25_SetReplacesAll ==
    (hist # <<>> /\ hist[Len(hist)] = "set") =>
        /\ DOMAIN arg = DOMAIN shape.v
        /\ \A k \in DOMAIN shape.v : shape.v[k] = arg[k]

\* a Vector4 set twice, now different from the constructed one on every
\* component
C25_Witness ==
    /\ hist = <<"set", "set">>
    /\ shape.kind = "Vector4"
    /\ \A k \in DOMAIN shape.v : shape.v[k] = Unit + 1 /\ orig.v[k] = Two

---------------------------------------------------------------------------
(* Claims about the derived quantities of the balls (specification         *)
(* SpecBall)                                                               *)

\* set_q(get_q()) has just been called on the constructed ball
SetToGot ==
    /\ hist = <<"get", "set">>
    /\ arg.q = ret.q
    /\ arg.value = ret.val

\* get_q() has just been called after set_q(value)
GotAfterSet ==
    /\ Len(hist) > 1
    /\ hist[Len(hist) - 1] = "set"
    /\ hist[Len(hist)] = "get"
    /\ arg.q = ret.q

\* C26: for every ball and every derived quantity q with a getter and a
\* setter, the setter inverts the getter: with a radius r >= 0,
\* set_q(get_q()) leaves the radius r, and after set_q(v) with v >= 0,
\* get_q() returns v.
C26_SetterInvertsGetter ==
    /\ SetToGot => shape.radius = orig.radius
    /\ GotAfterSet => ret.val = arg.value

\* the quantities whose setter does not invert the getter
BrokenQuantity(s, q) ==
    \/ s.kind = "Sphere" /\ q \in {"area", "volume"}
    \/ s.kind = "HyperSphere" /\ q = "volume"

\* every other setter inverts its getter
C26_InvertsButBroken ==
    /\ (SetToGot /\ ~BrokenQuantity(shape, arg.q)) => shape.radius = orig.radius
    /\ (GotAfterSet /\ ~BrokenQuantity(shape, arg.q)) => ret.val = arg.value

---------------------------------------------------------------------------
(* Claims about the getters and setters of the boxes (specification        *)
(* SpecSet)                                                                *)

BoxSetters ==
    {"set_width", "set_height", "set_depth", "set_hyper_depth", "set_size", "set_center"}

\* what the getter matching a setter returns
MatchingGetter(setter, s) ==
    CASE setter = "set_width" -> get_width(s)
      [] setter = "set_height" -> get_axis(s, "y")
      [] setter = "set_depth" -> get_axis(s, "z")
      [] setter = "set_hyper_depth" -> get_axis(s, "w")
      [] setter = "set_size" -> get_size(s)
      [] setter = "set_center" -> center_of(s)

AfterBoxSetter == hist # <<>> /\ hist[1] \in BoxSetters /\ IsBox(shape)

\* C27: for every box type, after set_width, set_height, set_depth,
\* set_hyper_depth, set_size or set_center the matching getter returns
\* exactly the value just set, on every axis.
C27_GetterReturnsSet ==
    AfterBoxSetter => MatchingGetter(hist[1], shape) = arg

\* the same on the axes x and y, but for the width of an Area4D
C27_GetterReturnsSetOnXY ==
    (AfterBoxSetter /\ ~(shape.kind = "Area4D" /\ hist[1] = "set_width")) =>
        IF hist[1] \in {"set_size", "set_center"}
        THEN \A k \in {"x", "y"} : MatchingGetter(hist[1], shape)[k] = arg[k]
        ELSE MatchingGetter(hist[1], shape) = arg

---------------------------------------------------------------------------
(* Claims about overlaps_circle on the 2D representations (specification   *)
(* SpecQuery)                                                              *)

\* C28: for a 2D region given as Rect, Area2D and Bounds2D and any Circle,
\* Area2D.overlaps_circle and Bounds2D.overlaps_circle each return the
\* boolean Rect.overlaps_circle returns.
C28_OverlapsCircleAgree ==
    ret.op = "overlaps_circle_reprs" =>
        /\ ret.area = ret.rect
        /\ ret.bounds = ret.rect

\* the Area2D does return what the Rect returns
C28_AreaAgrees ==
    ret.op = "overlaps_circle_reprs" => ret.area = ret.rect

---------------------------------------------------------------------------
(* Claims about indexing within the range (specification SpecQuery) *)

\* the components in the order of the indices
Component(i) ==
    CASE i = 0 -> "x"
      [] i = 1 -> "y"
      [] i = 2 -> "z"
      [] i = 3 -> "w"

InRange == ret.op \in {"index", "index_mut"} /\ arg.index < Dimension(orig)

IndexedRight ==
    /\ ret.op = "index" => ret.val = Ref(orig.v[Component(arg.index)])
    /\ ret.op = "index_mut" =>
          /\ ret.val # Panic
          /\ shape.v = [orig.v EXCEPT ![Component(arg.index)] = arg.value]

\* C29: indexed access, read and write, on a Vector2, Vector3 or Vector4
\* with an index i in 0..N-1 does not panic and accesses the i-th component
\* in the order x, y, z, w; index 3 of a Vector4 accesses w.
C29_IndexInRange == InRange => IndexedRight

\* every index in range but 3
C29_IndexInRangeButW == (InRange /\ arg.index # 3) => IndexedRight

---------------------------------------------------------------------------
(* Claims about the symmetry of Line2D::intersects (specification          *)
(* SpecQuery)                                                              *)

\* two quotients with the same value
SameQuot(p, q) == p.num * q.den = q.num * p.den

\* C30: for all segments A and B, A.intersects(B) and B.intersects(A) both
\* return no intersection or both return the same point.
C30_IntersectsSymmetric ==
    ret.op = "intersects" =>
        IF ret.val = NoPoint
        THEN ret.rev = NoPoint
        ELSE /\ ret.rev # NoPoint
             /\ SameQuot(ret.val.point.x, ret.rev.point.x)
             /\ SameQuot(ret.val.point.y, ret.rev.point.y)

\* two segments that cross between their end points, asked both ways
C30_Witness ==
    /\ ret.op = "intersects"
    /\ shape = Line2D_new(0, 0, 2 * Unit, 2 * Unit)
    /\ arg = Line2D_new(0, Unit, 2 * Unit, 0)
    /\ ret.val.some
    /\ ret.rev.some
    /\ ret.val.point.x.den # ret.rev.point.x.den

====
